---------------------------- MODULE Spec2Model ----------------------------
(***************************************************************************)
(* The EUDR documentation server: the document ingestion pipeline          *)
(* (src/src/documentProcessor.ts), the knowledge-base bootstrap, the REST  *)
(* routes and the stdio tools of src/src/web-server.ts, and the SSE        *)
(* sessions of src/src/mcp-sse-server.ts.                                  *)
(*                                                                         *)
(* JavaScript strings are TLA+ strings; Len, SubSeq and \o act on them.    *)
(* The alphabet of the modelled texts is printable ASCII, space, tab and   *)
(* newline.                                                                *)
(***************************************************************************)
EXTENDS Integers, Sequences, FiniteSets, TLC

(***************************************************************************)
(* String primitives of the JavaScript runtime, as the source uses them.   *)
(***************************************************************************)
Char(s, i) == SubSeq(s, i, i)

Min(S) == CHOOSE m \in S : \A n \in S : m <= n

Max(S) == CHOOSE m \in S : \A n \in S : m >= n

\* the element of a set of one element
Only(S) == CHOOSE x \in S : TRUE

\* the characters the regular-expression class \s matches
Ws == {" ", "\n", "\t"}

UpperLetters == "ABCDEFGHIJKLMNOPQRSTUVWXYZ"

LowerLetters == "abcdefghijklmnopqrstuvwxyz"

\* the lower-case letter of each upper-case letter, and the converse
Lower == [c \in {Char(UpperLetters, i) : i \in 1..26} |->
             Char(LowerLetters, CHOOSE i \in 1..26 : Char(UpperLetters, i) = c)]

Upper == [c \in {Char(LowerLetters, i) : i \in 1..26} |->
             Char(UpperLetters, CHOOSE i \in 1..26 : Char(LowerLetters, i) = c)]

LowerChar(c) == IF c \in DOMAIN Lower THEN Lower[c] ELSE c

UpperChar(c) == IF c \in DOMAIN Upper THEN Upper[c] ELSE c

RECURSIVE toLowerCase(_)
toLowerCase(s) ==
    IF s = "" THEN ""
    ELSE LowerChar(Char(s, 1)) \o toLowerCase(SubSeq(s, 2, Len(s)))

RECURSIVE toUpperCase(_)
toUpperCase(s) ==
    IF s = "" THEN ""
    ELSE UpperChar(Char(s, 1)) \o toUpperCase(SubSeq(s, 2, Len(s)))

\* s.startsWith(sub, i), 1-based
StartsAt(s, i, sub) ==
    /\ i >= 1
    /\ i + Len(sub) - 1 <= Len(s)
    /\ SubSeq(s, i, i + Len(sub) - 1) = sub

\* String.prototype.includes
includes(s, sub) == \E i \in 1..(Len(s) + 1) : StartsAt(s, i, sub)

\* index of the last occurrence of the one-character string c, 0 when none
LastIndexOf(s, c) ==
    LET at == {i \in 1..Len(s) : Char(s, i) = c}
    IN  IF at = {} THEN 0 ELSE Max(at)

\* number of consecutive characters from position i on that are in cs
SpanIn(s, i, cs) ==
    Min({j \in i..(Len(s) + 1) : j = Len(s) + 1 \/ Char(s, j) \notin cs}) - i

\* number of consecutive characters from position i on that are not in cs
SpanNotIn(s, i, cs) ==
    Min({j \in i..(Len(s) + 1) : j = Len(s) + 1 \/ Char(s, j) \in cs}) - i

\* String.prototype.trim
trim(s) ==
    LET keep == {i \in 1..Len(s) : Char(s, i) \notin Ws}
    IN  IF keep = {} THEN "" ELSE SubSeq(s, Min(keep), Max(keep))

\* s.split('\n')
RECURSIVE splitLines(_)
splitLines(s) ==
    LET n == SpanNotIn(s, 1, {"\n"})
    IN  IF n = Len(s) THEN <<s>>
        ELSE <<SubSeq(s, 1, n)>> \o splitLines(SubSeq(s, n + 2, Len(s)))

(***************************************************************************)
(* Node's path module on the POSIX paths the program builds.               *)
(***************************************************************************)
\* path.basename
basename(p) == SubSeq(p, LastIndexOf(p, "/") + 1, Len(p))

\* path.extname: from the last dot of the base name on; empty when there is
\* no dot or the only dot is the first character of the base name
extname(p) ==
    LET b == basename(p)
        d == LastIndexOf(b, ".")
    IN  IF d <= 1 THEN "" ELSE SubSeq(b, d, Len(b))

\* path.normalize of a relative path with no ".." and no doubled slash:
\* a leading "./" goes
normalize(p) == IF StartsAt(p, 1, "./") THEN SubSeq(p, 3, Len(p)) ELSE p

\* path.join(dirPath, item)
pathJoin(dirPath, item) == normalize(dirPath \o "/" \o item)

(***************************************************************************)
(* Document classifier (documentProcessor.ts, extractTitle and             *)
(* categorizeDocument).                                                    *)
(***************************************************************************)
IsLineStart(s, i) == i = 1 \/ Char(s, i - 1) = "\n"

\* filename.replace(/\.[^/.]+$/, "")
stripExtension(filename) ==
    LET d == LastIndexOf(filename, ".")
    IN  IF d >= 1 /\ d < Len(filename) /\ ~includes(SubSeq(filename, d + 1, Len(filename)), "/")
        THEN SubSeq(filename, 1, d - 1)
        ELSE filename

\* One attempt of /^<prefix>\s*(.+)$/m at position i: the capture, as
\* <<text>>, or <<>> when the pattern does not match there.  \s* is greedy
\* and gives characters back until (.+) has a character of its line to take.
LinePrefixAt(s, i, prefix) ==
    IF ~(IsLineStart(s, i) /\ StartsAt(s, i, prefix)) THEN <<>>
    ELSE LET a == i + Len(prefix)
             r == SpanIn(s, a, Ws)
             ks == {k \in 0..r : a + k <= Len(s) /\ Char(s, a + k) # "\n"}
         IN  IF ks = {} THEN <<>>
             ELSE LET p == a + Max(ks)
                  IN  <<SubSeq(s, p, p + SpanNotIn(s, p, {"\n"}) - 1)>>

\* content.match(/^<prefix>\s*(.+)$/m): the leftmost match
LinePrefixMatch(s, prefix) ==
    LET hits == {i \in 1..Len(s) : LinePrefixAt(s, i, prefix) # <<>>}
    IN  IF hits = {} THEN <<>> ELSE LinePrefixAt(s, Min(hits), prefix)

\* One attempt of /^(.+)\n={3,}$/m at position i
UnderlinedAt(s, i) ==
    LET n == SpanNotIn(s, i, {"\n"})
        e == SpanIn(s, i + n + 1, {"="})
    IN  IF /\ IsLineStart(s, i)
           /\ n >= 1
           /\ i + n <= Len(s)
           /\ e >= 3
           /\ (i + n + 1 + e = Len(s) + 1 \/ Char(s, i + n + 1 + e) = "\n")
        THEN <<SubSeq(s, i, i + n - 1)>>
        ELSE <<>>

UnderlinedMatch(s) ==
    LET hits == {i \in 1..Len(s) : UnderlinedAt(s, i) # <<>>}
    IN  IF hits = {} THEN <<>> ELSE UnderlinedAt(s, Min(hits))

\* the three title patterns, in the order of the titlePatterns array
titlePatterns(content) ==
    << LinePrefixMatch(content, "#"),
       LinePrefixMatch(content, "Title:"),
       UnderlinedMatch(content) >>

\* extractTitle with the 'Title:' pattern first in the array
extractTitle_TitleLineFirst(filename, content) ==
    Only({ Only({ IF hit = {} THEN stripExtension(filename) ELSE trim(m[Min(hit)][1]) :
                  hit \in {{k \in 1..Len(m) : m[k] # <<>>}} }) :
           m \in {<<titlePatterns(content)[2], titlePatterns(content)[1],
                    titlePatterns(content)[3]>>} })

extractTitle(filename, content) ==
    LET m == titlePatterns(content)
        hit == {k \in 1..Len(m) : m[k] # <<>>}
    IN  IF hit = {} THEN stripExtension(filename) ELSE trim(m[Min(hit)][1])

\* the keys of categorizeDocument with their labels, in the order of its tests
CategoryKeys ==
    << <<"cf1", "Basic Connectivity">>, <<"cf2", "Submit DDS">>,
       <<"cf3", "Retrieve DDS Status">>, <<"cf4", "Error Conditions">>,
       <<"cf5", "Amend DDS">>, <<"cf6", "Retract DDS">>,
       <<"cf7", "Retrieve Referenced DDS">>, <<"validation", "Validation Rules">>,
       <<"specification", "API Specifications">>, <<"development", "Development Options">>,
       <<"geojson", "GeoJSON">>, <<"python", "Python Examples">>,
       <<"request", "Request Examples">>, <<"response", "Response Examples">> >>

\* the label of the first pair of keys whose key the lowercased name includes
FirstKey(keys, lower, default) ==
    LET hit == {k \in 1..Len(keys) : includes(lower, keys[k][1])}
    IN  IF hit = {} THEN default ELSE keys[Min(hit)][2]

\* categorizeDocument with the test of "validation" moved to the front
categorizeDocument_ValidationFirst(filename) ==
    FirstKey(<<CategoryKeys[8]>> \o CategoryKeys, toLowerCase(filename), "General")

categorizeDocument(filename) == FirstKey(CategoryKeys, toLowerCase(filename), "General")

(***************************************************************************)
(* Structured extractors (documentProcessor.ts, extractEndpoints,          *)
(* extractExamples, extractRules and their helpers).  Each returns the     *)
(* records the source pushes, in the order it pushes them.                 *)
(***************************************************************************)
HttpVerbs == <<"POST", "GET", "PUT", "DELETE">>

\* the verb of (POST|GET|PUT|DELETE) matching at position i, "" when none;
\* fold is TRUE under the regular expression's i flag
VerbAt(s, i, fold) ==
    LET hit == {k \in 1..Len(HttpVerbs) :
                  /\ i + Len(HttpVerbs[k]) - 1 <= Len(s)
                  /\ LET w == SubSeq(s, i, i + Len(HttpVerbs[k]) - 1)
                     IN  (IF fold THEN toUpperCase(w) ELSE w) = HttpVerbs[k]}
    IN  IF hit = {} THEN "" ELSE HttpVerbs[Min(hit)]

\* One attempt of /(?:POST|GET|PUT|DELETE)\s+([^\s]+)/ at position i:
\* <<capture, index after the match>>, or <<>>
VerbTokenAt(s, i) ==
    LET v == VerbAt(s, i, FALSE)
        a == i + Len(v)
        w == SpanIn(s, a, Ws)
        t == SpanNotIn(s, a + w, Ws)
    IN  IF v # "" /\ w >= 1 /\ t >= 1
        THEN <<SubSeq(s, a + w, a + w + t - 1), a + w + t>>
        ELSE <<>>

\* One attempt of /<cue>[:\s]+([^<stop>]+)/i at position i, where stop is the
\* set of characters the capture class excludes: <<capture, index after the
\* match>>, or <<>>.  [:\s]+ is greedy and gives characters back until the
\* capture has a character to take.
CueAt(s, i, cue, stop) ==
    IF ~(i + Len(cue) - 1 <= Len(s) /\ toLowerCase(SubSeq(s, i, i + Len(cue) - 1)) = cue)
    THEN <<>>
    ELSE LET a == i + Len(cue)
             r == SpanIn(s, a, Ws \cup {":"})
             ks == {k \in 1..r : a + k <= Len(s) /\ Char(s, a + k) \notin stop}
         IN  IF ks = {} THEN <<>>
             ELSE LET p == a + Max(ks)
                      t == SpanNotIn(s, p, stop)
                  IN  <<SubSeq(s, p, p + t - 1), p + t>>

\* The while loop over pattern.exec of a g-flagged pattern: the captures of
\* the successive matches, each search starting where the last match ended.
RECURSIVE VerbTokenCaptures(_, _)
VerbTokenCaptures(s, from) ==
    LET hits == {i \in from..Len(s) : VerbTokenAt(s, i) # <<>>}
    IN  IF hits = {} THEN <<>>
        ELSE LET m == VerbTokenAt(s, Min(hits))
             IN  <<m[1]>> \o VerbTokenCaptures(s, m[2])

RECURSIVE CueCaptures(_, _, _, _)
CueCaptures(s, from, cue, stop) ==
    LET hits == {i \in from..Len(s) : CueAt(s, i, cue, stop) # <<>>}
    IN  IF hits = {} THEN <<>>
        ELSE LET m == CueAt(s, Min(hits), cue, stop)
             IN  <<m[1]>> \o CueCaptures(s, m[2], cue, stop)

\* the captures of the three endpointPatterns, pattern after pattern
endpointPatterns(content) ==
    VerbTokenCaptures(content, 1)
      \o CueCaptures(content, 1, "endpoint", Ws)
      \o CueCaptures(content, 1, "url", Ws)

\* the length of the longest string the engine makes (V8's
\* String::kMaxLength, scaled to the texts of the model): building a longer
\* one throws RangeError: Invalid string length
MaxStringLength == 64

\* the characters endpoint.replace(/[.*+?^${}()|[\]\\]/g, '\\$&') escapes
RegExpSpecials == {".", "*", "+", "?", "^", "$", "{", "}", "(", ")", "|", "[", "]", "\\"}

\* the length of the source `(POST|GET|PUT|DELETE)\\s+${escaped endpoint}`
methodPatternLength(endpoint) ==
    Len("(POST|GET|PUT|DELETE)") + 3 + Len(endpoint)
      + Cardinality({i \in 1..Len(endpoint) : Char(endpoint, i) \in RegExpSpecials})

extractOperationName(endpoint, category) ==
    category \o " - " \o SubSeq(endpoint, LastIndexOf(endpoint, "/") + 1, Len(endpoint))

\* the number of lines after the endpoint's line the description loop
\* stops before (i < endpointLine + 3), and the number before it starts at
DescriptionWindow == 3

\* a description line must be longer than this
DescriptionMinLength == 20

extractEndpointDescription(content, endpoint) ==
    LET lines == splitLines(content)
        found == {i \in 1..Len(lines) : includes(lines[i], endpoint)}
    IN  IF found = {} THEN endpoint \o " endpoint"
        ELSE LET at == Min(found)
                 lo == IF at - DescriptionWindow < 1 THEN 1 ELSE at - DescriptionWindow
                 hi == IF at + DescriptionWindow - 1 > Len(lines)
                       THEN Len(lines) ELSE at + DescriptionWindow - 1
                 good == {i \in lo..hi :
                            /\ trim(lines[i]) # ""
                            /\ ~includes(trim(lines[i]), endpoint)
                            /\ Len(trim(lines[i])) > DescriptionMinLength}
             IN  IF good = {} THEN endpoint \o " endpoint" ELSE trim(lines[Min(good)])

\* extractMethod with a regular expression that has no i flag
extractMethod_ExactCase(content, endpoint) ==
    LET hits == {i \in 1..Len(content) :
                   LET v == VerbAt(content, i, FALSE)
                       a == i + Len(v)
                       w == SpanIn(content, a, Ws)
                   IN  /\ v # ""
                       /\ w >= 1
                       /\ StartsAt(content, a + w, endpoint)}
    IN  IF hits = {} THEN "POST" ELSE VerbAt(content, Min(hits), FALSE)

\* content.match(new RegExp(`(POST|GET|PUT|DELETE)\\s+${escaped endpoint}`, 'i'))
extractMethod(content, endpoint) ==
    LET hits == {i \in 1..Len(content) :
                   LET v == VerbAt(content, i, TRUE)
                       a == i + Len(v)
                       w == SpanIn(content, a, Ws)
                   IN  /\ v # ""
                       /\ w >= 1
                       /\ a + w + Len(endpoint) - 1 <= Len(content)
                       /\ toLowerCase(SubSeq(content, a + w, a + w + Len(endpoint) - 1))
                            = toLowerCase(endpoint)}
    IN  IF hits = {} THEN "POST" ELSE VerbAt(content, Min(hits), TRUE)

\* building the record of endpoint throws: one of the strings its fields
\* are made of (the name, the default description, the source of the
\* method's pattern) would be longer than the engine allows
EndpointRecordThrows(doc, endpoint) ==
    \/ Len(extractOperationName(endpoint, doc.category)) > MaxStringLength
    \/ Len(extractEndpointDescription(doc.content, endpoint)) > MaxStringLength
    \/ methodPatternLength(endpoint) > MaxStringLength

\* an endpoint record whose source is the path of the document
EndpointRecord_SourcePath(doc, endpoint) ==
    [ name        |-> extractOperationName(endpoint, doc.category),
      description |-> extractEndpointDescription(doc.content, endpoint),
      method      |-> extractMethod(doc.content, endpoint),
      url         |-> endpoint,
      category    |-> doc.category,
      source      |-> doc.metadata.path ]

EndpointRecord(doc, endpoint) ==
    [ name        |-> extractOperationName(endpoint, doc.category),
      description |-> extractEndpointDescription(doc.content, endpoint),
      method      |-> extractMethod(doc.content, endpoint),
      url         |-> endpoint,
      category    |-> doc.category,
      source      |-> doc.filename ]

\* extractEndpoints that pushes a URL only the first time it is matched
extractEndpoints_Distinct(doc) ==
    LET caps == endpointPatterns(doc.content)
        RECURSIVE Records(_)
        Records(k) ==
            IF k > Len(caps) THEN <<>>
            ELSE IF includes(caps[k], "/") /\ EndpointRecordThrows(doc, caps[k]) THEN <<>>
            ELSE (IF includes(caps[k], "/") /\ ~\E j \in 1..(k - 1) : caps[j] = caps[k]
                  THEN <<EndpointRecord(doc, caps[k])>> ELSE <<>>)
                   \o Records(k + 1)
    IN  Records(1)

\* extractEndpoints(doc) throws: at the first match whose record cannot be
\* built
extractEndpointsThrows(doc) ==
    \E caps \in {endpointPatterns(doc.content)} :
        \E k \in 1..Len(caps) :
            includes(caps[k], "/") /\ EndpointRecordThrows(doc, caps[k])

\* the records extractEndpoints(doc) pushes: one per match with a '/', up to
\* the match it throws at
extractEndpoints(doc) ==
    Only({ LET RECURSIVE Records(_)
               Records(k) ==
                   IF k > Len(caps) THEN <<>>
                   ELSE IF includes(caps[k], "/") /\ EndpointRecordThrows(doc, caps[k]) THEN <<>>
                   ELSE (IF includes(caps[k], "/") THEN <<EndpointRecord(doc, caps[k])>> ELSE <<>>)
                          \o Records(k + 1)
           IN  Records(1) :
           caps \in {endpointPatterns(doc.content)} })

OperationKeys ==
    << <<"echo", "EchoService">>, <<"submit", "SubmitDDS">>,
       <<"retrieve", "RetrieveDDS">>, <<"amend", "AmendDDS">>,
       <<"retract", "RetractDDS">>, <<"statement", "GetStatement">> >>

\* extractOperationFromFilename on the filename as it is written
extractOperationFromFilename_ExactCase(filename) ==
    FirstKey(OperationKeys, filename, "Unknown")

extractOperationFromFilename(filename) ==
    FirstKey(OperationKeys, toLowerCase(filename), "Unknown")

\* extractExamples with isResponse tested first
extractExamples_ResponseFirst(doc) ==
    LET isRequest  == includes(toLowerCase(doc.filename), "request")
        isResponse == includes(toLowerCase(doc.filename), "response")
    IN  IF doc.type = "xml" /\ (isRequest \/ isResponse)
        THEN << [ name      |-> doc.title,
                  type      |-> IF isResponse THEN "response" ELSE "request",
                  content   |-> doc.content,
                  operation |-> extractOperationFromFilename(doc.filename),
                  source    |-> doc.filename ] >>
        ELSE <<>>

extractExamples(doc) ==
    LET isRequest  == includes(toLowerCase(doc.filename), "request")
        isResponse == includes(toLowerCase(doc.filename), "response")
    IN  IF doc.type = "xml" /\ (isRequest \/ isResponse)
        THEN << [ name      |-> doc.title,
                  type      |-> IF isRequest THEN "request" ELSE "response",
                  content   |-> doc.content,
                  operation |-> extractOperationFromFilename(doc.filename),
                  source    |-> doc.filename ] >>
        ELSE <<>>

\* the cue words of rulePatterns, in the order of the array
RuleCues == <<"rule", "validation", "must", "should">>

RuleRecord(doc, text) ==
    [ name |-> trim(text), description |-> trim(text),
      category |-> "Validation", source |-> doc.filename ]

\* extractRules without the test of the category
extractRules_AnyCategory(doc) ==
    LET RECURSIVE Records(_)
        Records(caps) ==
            IF caps = <<>> THEN <<>>
            ELSE <<RuleRecord(doc, Head(caps))>> \o Records(Tail(caps))
        RECURSIVE Passes(_)
        Passes(k) ==
            IF k > Len(RuleCues) THEN <<>>
            ELSE Records(CueCaptures(doc.content, 1, RuleCues[k], {"\n"})) \o Passes(k + 1)
    IN  Passes(1)

extractRules(doc) ==
    LET RECURSIVE Records(_)
        Records(caps) ==
            IF caps = <<>> THEN <<>>
            ELSE <<RuleRecord(doc, Head(caps))>> \o Records(Tail(caps))
        RECURSIVE Passes(_)
        Passes(k) ==
            IF k > Len(RuleCues) THEN <<>>
            ELSE Records(CueCaptures(doc.content, 1, RuleCues[k], {"\n"})) \o Passes(k + 1)
    IN  IF doc.category = "Validation Rules" THEN Passes(1) ELSE <<>>

(***************************************************************************)
(* The file system under the document root.  A node is                     *)
(*   [kind, quality, rev]:                                                 *)
(*   kind     "none"    no such entry                                      *)
(*            "file"    a regular file                                     *)
(*            "dir"     a directory                                        *)
(*            "nostat"  an entry readdirSync lists and statSync throws on  *)
(*                      (a dangling link, a path that may not be searched) *)
(*            "noread"  a directory readdirSync throws on                  *)
(*   quality  of a file: "ok", "malformed" (the format decoder throws on   *)
(*            its bytes) or "unreadable" (readFileSync throws)             *)
(*   rev      the revision of a file's bytes; size, mtime and text follow  *)
(***************************************************************************)
DOCUMENTS_PATH == "./documents"

Root == normalize(DOCUMENTS_PATH)

\* the entries that may exist under the root, in the order readdirSync lists
\* the entries of a directory
FsEntries ==
    << "documents/Request.XML", "documents/notes.txt", "documents/sub",
       "documents/sub/api.pdf", "documents/sub/validation.docx",
       "documents/validation.docx" >>

FsPaths == {Root} \cup {FsEntries[i] : i \in 1..Len(FsEntries)}

DirPaths == {Root, "documents/sub"}

dirname(p) == SubSeq(p, 1, LastIndexOf(p, "/") - 1)

NoNode == [kind |-> "none", quality |-> "ok", rev |-> 0]

DirNode(k) == [kind |-> k, quality |-> "ok", rev |-> 0]

FileNode(q, r) == [kind |-> "file", quality |-> q, rev |-> r]

\* the revisions of a file's bytes
Revs == {0, 1}

\* what readFileSync returns and what the format decoder makes of it
\* (mammoth, xml2js with JSON.stringify(parsed, null, 2), pdfjs), per file and
\* revision: raw is the file as text, text the decoder's output
FileData(path, rev) ==
    CASE path = "documents/Request.XML" ->
           IF rev = 0
           THEN [ raw  |-> "<r>POST /echo</r>",
                  text |-> "{\n  \"r\": \"POST /echo\"\n}" ]
           ELSE [ raw  |-> "<r>url: /echo/v2</r>",
                  text |-> "{\n  \"r\": \"url: /echo/v2\"\n}" ]
      [] path = "documents/validation.docx" ->
           IF rev = 0
           THEN [ raw  |-> "PK",
                  text |-> "# Checks\nRule: area must be set\nendpoint: /dds/check" ]
           ELSE [ raw  |-> "PK2",
                  text |-> "Title: Checks 2\nshould: warn" ]
      [] path = "documents/sub/api.pdf" ->
           IF rev = 0
           THEN [ raw  |-> "%PDF",
                  text |-> "Call GET /api/v1/status now.\nIt reports the status of a statement.\n" ]
           ELSE [ raw  |-> "%PDF-2",
                  text |-> "GET /api\nGET /aaaaaaaaaaaaaaaaaaaaaaaaaaaaaaaaaaaaaaaaaaaaaaaaa\n" ]
      [] path = "documents/sub/validation.docx" ->
           IF rev = 0
           THEN [ raw  |-> "PK3",
                  text |-> "Must: map plots\nGET /dds/plots" ]
           ELSE [ raw  |-> "PK34",
                  text |-> "validation: none" ]
      [] OTHER -> [raw |-> "plain notes", text |-> "plain notes"]

\* stat.size and stat.mtime (milliseconds) of a file
StatOf(path, node) ==
    [size |-> Len(FileData(path, node.rev).raw), mtime |-> node.rev + 1]

\* existsSync with the answer "yes" for every path
existsSync_Always(f, p) == TRUE

existsSync(f, p) == f[normalize(p)].kind \notin {"none", "nostat"}

\* fs.statSync(p) throws
statThrows(f, p) == f[normalize(p)].kind \in {"none", "nostat"}

isDirectory(f, p) == f[normalize(p)].kind \in {"dir", "noread"}

\* fs.readdirSync(p) throws
readdirThrows(f, p) == f[normalize(p)].kind # "dir"

\* fs.readdirSync(p): the names of the entries of directory p
readdirSync(f, p) ==
    LET RECURSIVE List(_)
        List(i) ==
            IF i > Len(FsEntries) THEN <<>>
            ELSE (IF dirname(FsEntries[i]) = normalize(p) /\ f[FsEntries[i]].kind # "none"
                  THEN <<basename(FsEntries[i])>> ELSE <<>>) \o List(i + 1)
    IN  List(1)

\* fs.readFileSync(p) throws
readThrows(f, p) == f[normalize(p)].kind # "file" \/ f[normalize(p)].quality = "unreadable"

(***************************************************************************)
(* File discovery (documentProcessor.ts, getAllFiles and isSupportedFile). *)
(***************************************************************************)
SupportedExtensions == {".docx", ".xml", ".pdf"}

\* isSupportedFile comparing the extension as written
isSupportedFile_CaseSensitive(filename) == extname(filename) \in SupportedExtensions

isSupportedFile(filename) == toLowerCase(extname(filename)) \in SupportedExtensions

\* getAllFiles(dirPath) on file system f: [threw, files]; threw when
\* readdirSync or statSync throws anywhere in the traversal
RECURSIVE getAllFiles(_, _)
getAllFiles(f, dirPath) ==
    IF ~existsSync(f, dirPath) THEN [threw |-> FALSE, files |-> <<>>]
    ELSE IF readdirThrows(f, dirPath) THEN [threw |-> TRUE, files |-> <<>>]
    ELSE LET items == readdirSync(f, dirPath)
             RECURSIVE Walk(_, _)
             Walk(i, files) ==
                 IF i > Len(items) THEN [threw |-> FALSE, files |-> files]
                 ELSE LET fullPath == pathJoin(dirPath, items[i])
                      IN  IF statThrows(f, fullPath) THEN [threw |-> TRUE, files |-> <<>>]
                          ELSE IF isDirectory(f, fullPath)
                               THEN LET sub == getAllFiles(f, fullPath)
                                    IN  IF sub.threw THEN sub
                                        ELSE Walk(i + 1, files \o sub.files)
                          ELSE IF isSupportedFile(items[i])
                               THEN Walk(i + 1, Append(files, fullPath))
                          ELSE Walk(i + 1, files)
         IN  Walk(1, <<>>)

(***************************************************************************)
(* Format extractors and processDocument (documentProcessor.ts).           *)
(***************************************************************************)
\* the decoder proper (mammoth, pdfjs) throws on the file's bytes
decoderThrows(f, filePath) == f[normalize(filePath)].quality = "malformed"

processDOCX(f, filePath) ==
    IF readThrows(f, filePath) \/ decoderThrows(f, filePath)
    THEN "Error processing DOCX: " \o filePath
    ELSE FileData(normalize(filePath), f[normalize(filePath)].rev).text

\* a failure of parseXML is caught by the inner handler: the raw text
processXML(f, filePath) ==
    IF readThrows(f, filePath)
    THEN "Error processing XML: " \o filePath
    ELSE IF decoderThrows(f, filePath)
         THEN FileData(normalize(filePath), f[normalize(filePath)].rev).raw
         ELSE FileData(normalize(filePath), f[normalize(filePath)].rev).text

\* processPDF with the error text of processDOCX
processPDF_TextOfDOCX(f, filePath) ==
    IF readThrows(f, filePath) \/ decoderThrows(f, filePath)
    THEN "Error processing DOCX: " \o filePath
    ELSE FileData(normalize(filePath), f[normalize(filePath)].rev).text

processPDF(f, filePath) ==
    IF readThrows(f, filePath) \/ decoderThrows(f, filePath)
    THEN "Error processing PDF: " \o filePath
    ELSE FileData(normalize(filePath), f[normalize(filePath)].rev).text

\* a JavaScript Date
Date(ms) == [date |-> ms]

DocumentContent(filePath, type, content, stat) ==
    [ filename |-> basename(filePath),
      title    |-> extractTitle(basename(filePath), content),
      content  |-> content,
      type     |-> type,
      category |-> categorizeDocument(basename(filePath)),
      metadata |-> [size |-> stat.size, modified |-> Date(stat.mtime), path |-> filePath] ]

\* processDocument(filePath) on file system f: [threw, doc] with doc the
\* document as <<doc>>, or <<>> for the null it returns; threw when statSync
\* throws, which no handler of processDocument catches
processDocument(f, filePath) ==
    IF statThrows(f, filePath) THEN [threw |-> TRUE, doc |-> <<>>]
    ELSE LET stat == StatOf(normalize(filePath), f[normalize(filePath)])
             ext  == toLowerCase(extname(filePath))
         IN  CASE ext = ".docx" ->
                    [threw |-> FALSE,
                     doc |-> <<DocumentContent(filePath, "docx", processDOCX(f, filePath), stat)>>]
               [] ext = ".xml" ->
                    [threw |-> FALSE,
                     doc |-> <<DocumentContent(filePath, "xml", processXML(f, filePath), stat)>>]
               [] ext = ".pdf" ->
                    [threw |-> FALSE,
                     doc |-> <<DocumentContent(filePath, "pdf", processPDF(f, filePath), stat)>>]
               [] OTHER -> [threw |-> FALSE, doc |-> <<>>]

(***************************************************************************)
(* The knowledge base of a DocumentProcessor.                              *)
(***************************************************************************)
EmptyKnowledge == [documents |-> <<>>, endpoints |-> <<>>, examples |-> <<>>, rules |-> <<>>]

\* extractStructuredInfo(doc) on knowledge k
extractStructuredInfo(k, doc) ==
    IF extractEndpointsThrows(doc)
    THEN [k EXCEPT !.endpoints = @ \o extractEndpoints(doc)]
    ELSE [k EXCEPT !.endpoints = @ \o extractEndpoints(doc),
                   !.examples  = @ \o extractExamples(doc),
                   !.rules     = @ \o extractRules(doc)]

\* every state a node of the file system takes
Nodes ==
    {NoNode, DirNode("dir"), DirNode("nostat"), DirNode("noread")}
      \cup {FileNode(q, r) : q \in {"ok", "malformed", "unreadable"}, r \in Revs}

\* processDocument(filePath) reads the file system at filePath only: its
\* result per path and node there, computed once
ProcessedDocument ==
    { <<p, n, processDocument([q \in FsPaths |-> IF q = p THEN n ELSE NoNode], p)>> :
        p \in FsPaths, n \in Nodes }

\* the records extractStructuredInfo appends for each document, computed once
StructuredInfo ==
    { <<x[3].doc[1], extractStructuredInfo(EmptyKnowledge, x[3].doc[1]),
        extractEndpointsThrows(x[3].doc[1])>> :
        x \in {y \in ProcessedDocument : y[3].doc # <<>>} }

\* the table's entry for filePath on file system f
ProcessedAt(f, filePath) ==
    Only({ Only({x[3] : x \in {y \in ProcessedDocument : y[1] = at[1] /\ y[2] = at[2]}}) :
           at \in {<<normalize(filePath), f[normalize(filePath)]>>} })

\* a loop body that puts a document and its records first
WithDocument_First(k, doc) ==
    Only({ [ documents |-> <<doc>> \o k.documents,
             endpoints |-> info.endpoints \o k.endpoints,
             examples  |-> info.examples \o k.examples,
             rules     |-> info.rules \o k.rules ] :
           info \in {x[2] : x \in {y \in StructuredInfo : y[1] = doc}} })

\* a push that first drops the documents filed under the same filename
WithDocument_Replace(k, doc) ==
    Only({ [ documents |-> Append(SelectSeq(k.documents,
                                            LAMBDA d : d.filename # doc.filename), doc),
             endpoints |-> k.endpoints \o info.endpoints,
             examples  |-> k.examples \o info.examples,
             rules     |-> k.rules \o info.rules ] :
           info \in {x[2] : x \in {y \in StructuredInfo : y[1] = doc}} })

\* knowledge k with document doc pushed and its records appended
WithDocument(k, doc) ==
    Only({ [ documents |-> Append(k.documents, doc),
             endpoints |-> k.endpoints \o info.endpoints,
             examples  |-> k.examples \o info.examples,
             rules     |-> k.rules \o info.rules ] :
           info \in {x[2] : x \in {y \in StructuredInfo : y[1] = doc}} })

\* the loop body with a catch that records a document for the file
processOneFile_ErrorDocument(k, f, filePath) ==
    Only({ IF r.threw
           THEN [k EXCEPT !.documents =
                    Append(@, [ filename |-> basename(filePath),
                                title    |-> basename(filePath),
                                content  |-> "Error processing " \o filePath,
                                type     |-> "unknown",
                                category |-> "general",
                                metadata |-> [size |-> 0, modified |-> Date(0),
                                              path |-> filePath] ])]
           ELSE IF r.doc = <<>> THEN k
           ELSE WithDocument(k, r.doc[1]) :
           r \in {ProcessedAt(f, filePath)} })

\* one iteration of the loop of processAllDocuments on knowledge k: the try
\* block (processDocument, push, extractStructuredInfo), whose catch drops
\* whatever processDocument throws
processOneFile(k, f, filePath) ==
    Only({ IF r.threw \/ r.doc = <<>> THEN k ELSE WithDocument(k, r.doc[1]) :
           r \in {ProcessedAt(f, filePath)} })

(***************************************************************************)
(* JSON (saveKnowledge's JSON.stringify, initializeKnowledgeBase's         *)
(* JSON.parse).  A JSON text is modelled by the value it denotes: strings, *)
(* numbers, arrays and objects are their own JSON, and a Date is written   *)
(* as the string its toISOString returns.  A string in the place of a Date *)
(* is [string |-> s].                                                      *)
(***************************************************************************)
Digit(n) == Char("0123456789", n + 1)

\* Date.prototype.toISOString, for the first second of the epoch
toISOString(d) ==
    "1970-01-01T00:00:00."
      \o Digit(d.date \div 100) \o Digit((d.date \div 10) % 10) \o Digit(d.date % 10)
      \o "Z"

IsDate(v) == DOMAIN v = {"date"}

\* what JSON.stringify writes for a document's metadata.modified
modifiedToJSON(v) == IF IsDate(v) THEN [string |-> toISOString(v)] ELSE v

documentToJSON(doc) == [doc EXCEPT !.metadata.modified = modifiedToJSON(@)]

\* JSON.stringify(knowledge, null, 2)
JSONstringify(k) ==
    [k EXCEPT !.documents = [i \in 1..Len(k.documents) |-> documentToJSON(k.documents[i])]]

\* JSON.parse of the text that denotes value v
JSONparse(v) == v

(***************************************************************************)
(* State.  A DocumentProcessor is used by one caller at a time; callers    *)
(* are the client of the class (Client: a script such as the processing    *)
(* test) and the request handlers of a server process (Handlers).          *)
(***************************************************************************)
\* calls of processAllDocuments the client makes
MaxRuns == 2

\* changes other programs make to the document root while this one runs
MaxFsChanges == 1

\* concurrent requests a server process handles
MaxRequests == 2

\* times the server process is started again
MaxRestarts == 1

\* caller 0 is the program's main function: the client of the class in Spec,
\* the main function of a server in ServerSpec
Client == 0

Main == 0

Handlers == 1..MaxRequests

Callers == {Client} \cup Handlers

VARIABLES
    fs,           \* the file system under the document root: FsPaths -> node
    fsChanges,    \* number of changes made to it so far
    knowledge,    \* per caller: this.knowledge of its DocumentProcessor
    calls,        \* per caller: calls of processAllDocuments on that instance
    files,        \* per caller: the files array of the running call
    next,         \* per caller: index in files of the next loop iteration
    pc,           \* per caller: where its control is
    call,         \* per caller: record of the running call (history)
    runs,         \* the client's finished calls of processAllDocuments (history)
    frontEnd,     \* the server program run: "web" (REST) or "stdio" (MCP)
    knowledgeBase,\* the server's global: <<>> for null, else <<knowledge base>>
    cache,        \* the file at KNOWLEDGE_CACHE_PATH: [kind, value]
    init,         \* per caller: record of its initializeKnowledgeBase (history)
    process,      \* what the server process has done since it started (history)
    restarts,     \* number of times the server process was started again
    unit,         \* the call of a helper method on its own: [op, input, output]
    transports,   \* the SSE server's session table: sessionId -> transport
    connects,     \* the SSE transports made so far: [sessionId, state] (history)
    post          \* the POST to /messages answered last (history)

pipelineVars == <<knowledge, calls, files, next, pc, call, runs>>

serverVars == <<frontEnd, knowledgeBase, cache, init, process, restarts>>

sseVars == <<transports, connects, post>>

vars == <<fs, fsChanges, pipelineVars, serverVars, unit, sseVars>>

\* no SSE server runs: the table is empty and nothing has connected or posted
NoSessions ==
    /\ transports = [id \in {} |-> 0]
    /\ connects = <<>>
    /\ post = <<>>

(***************************************************************************)
(* Initial file systems.  An entry exists only inside a directory.  The    *)
(* initial trees are every tree of sound entries (any of them present or   *)
(* absent) and the full tree with one entry unsound; the changes other     *)
(* programs make add to these.                                             *)
(***************************************************************************)
NodeChoices(p) ==
    CASE p = Root -> {NoNode, DirNode("dir"), DirNode("noread")}
      [] p = "documents/sub" -> {NoNode, DirNode("dir"), DirNode("nostat"), DirNode("noread")}
      [] p = "documents/notes.txt" -> {NoNode, DirNode("nostat"), FileNode("ok", 0)}
      [] p = "documents/sub/validation.docx" -> {NoNode, FileNode("ok", 0)}
      [] OTHER -> {NoNode, DirNode("nostat"), FileNode("ok", 0),
                   FileNode("malformed", 0), FileNode("unreadable", 0)}

Sound(n) == n \in {NoNode, DirNode("dir"), FileNode("ok", 0)}

WellFormedFs(f) ==
    \A p \in FsPaths \ {Root} : f[p].kind # "none" => f[dirname(p)].kind = "dir"

FullFs == [p \in FsPaths |-> IF p \in DirPaths THEN DirNode("dir") ELSE FileNode("ok", 0)]

\* f with the entries under p removed
WithoutChildren(f, p) ==
    [q \in FsPaths |-> IF q # p /\ StartsAt(q, 1, p \o "/") THEN NoNode ELSE f[q]]

\* the full tree without the second validation.docx
PlainFs == [FullFs EXCEPT !["documents/sub/validation.docx"] = NoNode]

InitialFs ==
    {f \in [FsPaths -> {NoNode, DirNode("dir"), FileNode("ok", 0)}] :
        /\ \A p \in FsPaths : f[p] \in NodeChoices(p)
        /\ WellFormedFs(f)}
      \cup {WithoutChildren([PlainFs EXCEPT ![x[1]] = x[2]], x[1]) :
              x \in {y \in FsPaths \X Nodes : y[2] \in NodeChoices(y[1]) /\ ~Sound(y[2])}}

KNOWLEDGE_CACHE_PATH == "./knowledge-cache.json"

\* the states of the cache file: absent, not JSON, or the JSON of a value
NoFile == [kind |-> "none", value |-> <<>>]

Malformed == [kind |-> "malformed", value |-> <<>>]

JsonFile(v) == [kind |-> "json", value |-> v]

NoInit == [found |-> FALSE, outcome |-> "none", written |-> NoFile]

NewProcess(c) == [ bootCache |-> c, populated |-> 0, pipelineRuns |-> 0,
                   cacheLoads |-> 0, cacheWrites |-> 0 ]

NoUnit == [op |-> "none", input |-> <<>>, output |-> <<>>]

NoCall == [ fresh |-> TRUE, changesAtStart |-> 0, fsThen |-> FullFs,
            before |-> EmptyKnowledge, entries |-> <<>> ]

Init ==
    /\ fs \in InitialFs
    /\ fsChanges = 0
    /\ knowledge = [c \in Callers |-> EmptyKnowledge]
    /\ calls = [c \in Callers |-> 0]
    /\ files = [c \in Callers |-> <<>>]
    /\ next = [c \in Callers |-> 1]
    /\ pc = [c \in Callers |-> "ready"]
    /\ call = [c \in Callers |-> NoCall]
    /\ runs = <<>>
    /\ frontEnd = "none"
    /\ knowledgeBase = <<>>
    /\ cache = NoFile
    /\ init = [c \in Callers |-> NoInit]
    /\ process = NewProcess(NoFile)
    /\ restarts = 0
    /\ unit = NoUnit
    /\ NoSessions

(***************************************************************************)
(* Other programs change the document root.  A change made before the      *)
(* first call is another initial file system, and a change to a file the   *)
(* running calls have passed or never found is one made after they end:    *)
(* the changes modelled are those to a file a running call has yet to      *)
(* process, and those made while no call runs.                             *)
(***************************************************************************)
Pending(c) == {files[c][i] : i \in next[c]..Len(files[c])}

MayChange(p) ==
    /\ fsChanges < MaxFsChanges
    /\ \/ \E c \in Callers : calls[c] > 0 \/ pc[c] \in {"loop", "initialized", "done"}
       \/ runs # <<>>
       \/ restarts > 0
    /\ \/ \A c \in Callers : pc[c] # "loop"
       \/ \E c \in Callers : pc[c] = "loop" /\ p \in Pending(c)

\* a file is deleted
Unlink(p) ==
    /\ MayChange(p)
    /\ fs[p].kind = "file"
    /\ fs' = [fs EXCEPT ![p] = NoNode]
    /\ fsChanges' = fsChanges + 1
    /\ UNCHANGED <<sseVars, pipelineVars, serverVars, unit>>

\* a file is written anew: other bytes, size and modification time
Rewrite(p) ==
    /\ MayChange(p)
    /\ fs[p].kind = "file"
    /\ fs[p].rev + 1 \in Revs
    /\ fs' = [fs EXCEPT ![p].rev = @ + 1]
    /\ fsChanges' = fsChanges + 1
    /\ UNCHANGED <<sseVars, pipelineVars, serverVars, unit>>

(***************************************************************************)
(* The DocumentProcessor, used by caller c.                                *)
(***************************************************************************)
\* what one loop iteration did with filePath, for the record of the call
Outcome(f, filePath) ==
    LET ext == toLowerCase(extname(filePath))
    IN  IF statThrows(f, filePath) THEN "statThrew"
        ELSE IF ext \notin SupportedExtensions THEN "unsupported"
        ELSE IF readThrows(f, filePath) THEN "decoderThrew"
        ELSE IF decoderThrows(f, filePath)
             THEN (IF ext = ".xml" THEN "parseFailed" ELSE "decoderThrew")
        ELSE IF \E r \in {ProcessedAt(f, filePath)} :
                   \E x \in StructuredInfo : x[1] = r.doc[1] /\ x[3]
             THEN "extractionThrew"
        ELSE "decoded"

\* the record of a finished call: cl the record of the call, discovered its
\* files array, k the knowledge when it ended
Finished(cl, discovered, raised, k) ==
    [ fresh          |-> cl.fresh,
      changesAtStart |-> cl.changesAtStart,
      changesAtEnd   |-> fsChanges,
      fsThen         |-> cl.fsThen,
      discovered     |-> discovered,
      entries        |-> cl.entries,
      before         |-> cl.before,
      raised         |-> raised,
      result         |-> k ]

\* a constructor that leaves the knowledge as it is
constructor_KeepKnowledge(c) ==
    /\ knowledge' = knowledge
    /\ calls' = [calls EXCEPT ![c] = 0]

\* new DocumentProcessor(DOCUMENTS_PATH)
constructor(c) ==
    /\ knowledge' = [knowledge EXCEPT ![c] = EmptyKnowledge]
    /\ calls' = [calls EXCEPT ![c] = 0]

\* processAllDocuments up to its first await: getAllFiles, which may throw
BeginProcessAll(c) ==
    LET d == getAllFiles(fs, DOCUMENTS_PATH)
    IN  /\ call' = [call EXCEPT ![c] = [ fresh          |-> calls[c] = 0,
                                         changesAtStart |-> fsChanges,
                                         fsThen         |-> fs,
                                         before         |-> knowledge[c],
                                         entries        |-> <<>> ]]
        /\ files' = [files EXCEPT ![c] = d.files]
        /\ next' = [next EXCEPT ![c] = 1]
        /\ pc' = [pc EXCEPT ![c] = IF d.threw THEN "raised" ELSE "loop"]

\* one iteration of the for loop of processAllDocuments
LoopIteration(c) ==
    LET filePath == files[c][next[c]]
    IN  /\ knowledge' = [knowledge EXCEPT ![c] = processOneFile(@, fs, filePath)]
        /\ call' = [call EXCEPT ![c].entries =
                      Append(@, [path |-> filePath, outcome |-> Outcome(fs, filePath)])]
        /\ next' = [next EXCEPT ![c] = @ + 1]

(***************************************************************************)
(* The client of the class: constructs processors and calls                *)
(* processAllDocuments, on a new instance or on the one it has.            *)
(***************************************************************************)
Construct ==
    /\ pc[Client] \in {"returned", "raised"}
    /\ Len(runs) < MaxRuns
    /\ constructor(Client)
    /\ pc' = [pc EXCEPT ![Client] = "ready"]
    /\ UNCHANGED <<sseVars, fs, fsChanges, files, next, call, runs, serverVars, unit>>

CallProcessAllDocuments ==
    /\ pc[Client] \in {"ready", "returned", "raised"}
    /\ Len(runs) < MaxRuns
    /\ BeginProcessAll(Client)
    /\ calls' = [calls EXCEPT ![Client] = @ + 1]
    /\ runs' = IF pc'[Client] = "raised"
               THEN Append(runs, Finished(call'[Client], <<>>, TRUE, knowledge[Client]))
               ELSE runs
    /\ UNCHANGED <<sseVars, fs, fsChanges, knowledge, serverVars, unit>>

ProcessFile ==
    /\ pc[Client] = "loop"
    /\ next[Client] <= Len(files[Client])
    /\ LoopIteration(Client)
    /\ UNCHANGED <<sseVars, fs, fsChanges, calls, files, pc, runs, serverVars, unit>>

ReturnKnowledge ==
    /\ pc[Client] = "loop"
    /\ next[Client] > Len(files[Client])
    /\ pc' = [pc EXCEPT ![Client] = "returned"]
    /\ runs' = Append(runs, Finished(call[Client], files[Client], FALSE, knowledge[Client]))
    /\ UNCHANGED <<sseVars, fs, fsChanges, knowledge, calls, files, next, call, serverVars, unit>>

Next ==
    \/ Construct
    \/ CallProcessAllDocuments
    \/ ProcessFile
    \/ ReturnKnowledge
    \/ \E p \in FsPaths : Unlink(p)
    \/ \E p \in FsPaths : Rewrite(p)

Spec == Init /\ [][Next]_vars

(***************************************************************************)
(* The servers (src/src/web-server.ts holds two: the REST server, whose    *)
(* main initialises the knowledge base before it listens, and the stdio    *)
(* MCP server, whose request handlers initialise it when they find it      *)
(* null).  Caller Main is main(); the callers in Handlers are the          *)
(* invocations of request handlers, one request each.  A step is the code  *)
(* a caller runs from one await to the next.                               *)
(***************************************************************************)
WriteOutcomes == {"ok", "denied", "partial"}

\* a saveKnowledge that writes the knowledge of a new processor
saveKnowledge_OfNewProcessor(k, w) ==
    CASE w = "ok"      -> JsonFile(JSONstringify(EmptyKnowledge))
      [] w = "partial" -> Malformed
      [] OTHER         -> cache

\* saveKnowledge(KNOWLEDGE_CACHE_PATH) of a processor with knowledge k: the
\* file afterwards, writeFileSync having succeeded (ok), thrown with the
\* file untouched (denied) or thrown with part of the text written
saveKnowledge(k, w) ==
    CASE w = "ok"      -> JsonFile(JSONstringify(k))
      [] w = "partial" -> Malformed
      [] OTHER         -> cache

\* what JSON.parse returns for the text null; the variable knowledgeBase
\* holds <<>> for null and <<v>> for any other value v
Null == [null |-> TRUE]

\* an initializeKnowledgeBase that does not look for the cache
InitBegin_IgnoreCache(c) ==
    /\ constructor(c)
    /\ BeginProcessAll(c)
    /\ init' = [init EXCEPT ![c] = [found |-> FALSE, outcome |-> "running", written |-> NoFile]]
    /\ process' = [process EXCEPT !.pipelineRuns = @ + 1]
    /\ UNCHANGED <<sseVars, knowledgeBase, cache>>

\* an initializeKnowledgeBase that parses the cache outside its try block
InitBegin_ParseUncaught(c) ==
    CASE cache.kind = "json" ->
            /\ knowledgeBase' = IF JSONparse(cache.value) = Null
                                THEN <<>>
                                ELSE <<JSONparse(cache.value)>>
            /\ init' = [init EXCEPT ![c] = [found |-> TRUE, outcome |-> "loaded", written |-> NoFile]]
            /\ process' = [process EXCEPT !.cacheLoads = @ + 1, !.populated = @ + 1]
            /\ pc' = [pc EXCEPT ![c] = "initialized"]
            /\ UNCHANGED <<sseVars, cache, knowledge, calls, files, next, call>>
      [] cache.kind = "malformed" ->
            /\ init' = [init EXCEPT ![c] = [found |-> TRUE, outcome |-> "raised", written |-> NoFile]]
            /\ pc' = [pc EXCEPT ![c] = "rejected"]
            /\ UNCHANGED <<sseVars, knowledgeBase, process, cache, knowledge, calls, files, next, call>>
      [] OTHER ->
            /\ constructor(c)
            /\ BeginProcessAll(c)
            /\ init' = [init EXCEPT ![c] = [found |-> FALSE, outcome |-> "running", written |-> NoFile]]
            /\ process' = [process EXCEPT !.pipelineRuns = @ + 1]
            /\ UNCHANGED <<sseVars, knowledgeBase, cache>>

\* initializeKnowledgeBase up to its first await: the cache is loaded, or
\* its load throws and the catch block runs, or a processor is constructed
\* and processAllDocuments begun
InitBegin(c) ==
    CASE cache.kind = "json" ->
            /\ knowledgeBase' = IF JSONparse(cache.value) = Null
                                THEN <<>>
                                ELSE <<JSONparse(cache.value)>>
            /\ init' = [init EXCEPT ![c] = [found |-> TRUE, outcome |-> "loaded", written |-> NoFile]]
            /\ process' = [process EXCEPT !.cacheLoads = @ + 1, !.populated = @ + 1]
            /\ pc' = [pc EXCEPT ![c] = "initialized"]
            /\ UNCHANGED <<sseVars, cache, knowledge, calls, files, next, call>>
      [] cache.kind = "malformed" ->
            /\ knowledgeBase' = <<EmptyKnowledge>>
            /\ init' = [init EXCEPT ![c] = [found |-> TRUE, outcome |-> "fallback", written |-> NoFile]]
            /\ process' = [process EXCEPT !.populated = @ + 1]
            /\ pc' = [pc EXCEPT ![c] = "initialized"]
            /\ UNCHANGED <<sseVars, cache, knowledge, calls, files, next, call>>
      [] OTHER ->
            /\ constructor(c)
            /\ BeginProcessAll(c)
            /\ init' = [init EXCEPT ![c] = [found |-> FALSE, outcome |-> "running", written |-> NoFile]]
            /\ process' = [process EXCEPT !.pipelineRuns = @ + 1]
            /\ UNCHANGED <<sseVars, knowledgeBase, cache>>

\* processAllDocuments has returned: knowledgeBase is assigned and
\* saveKnowledge called
InitSave(c) ==
    /\ pc[c] = "loop"
    /\ next[c] > Len(files[c])
    /\ knowledgeBase' = <<knowledge[c]>>
    /\ \E w \in WriteOutcomes :
          /\ cache' = saveKnowledge(knowledge[c], w)
          /\ pc' = [pc EXCEPT ![c] = IF w = "ok" THEN "initialized" ELSE "saveFailed"]
          /\ init' = [init EXCEPT ![c] =
                        IF w = "ok"
                        THEN [found |-> FALSE, outcome |-> "processed", written |-> cache']
                        ELSE @]
          /\ process' = [process EXCEPT !.populated = @ + 1,
                                        !.cacheWrites = IF w = "ok" THEN @ + 1 ELSE @]
    /\ UNCHANGED <<sseVars, fs, fsChanges, knowledge, calls, files, next, call, runs, frontEnd, restarts, unit>>

\* a catch block that leaves knowledgeBase as the try block left it
InitCatch_KeepKnowledgeBase(c) ==
    /\ pc[c] \in {"raised", "saveFailed"}
    /\ knowledgeBase' = IF knowledgeBase = <<>> THEN <<EmptyKnowledge>> ELSE knowledgeBase
    /\ init' = [init EXCEPT ![c].outcome = "fallback"]
    /\ process' = [process EXCEPT !.populated = @ + 1]
    /\ pc' = [pc EXCEPT ![c] = "initialized"]
    /\ UNCHANGED <<sseVars, fs, fsChanges, knowledge, calls, files, next, call, runs, frontEnd, unit,
                   cache, restarts>>

\* the catch block of initializeKnowledgeBase, after processAllDocuments or
\* saveKnowledge threw
InitCatch(c) ==
    /\ pc[c] \in {"raised", "saveFailed"}
    /\ knowledgeBase' = <<EmptyKnowledge>>
    /\ init' = [init EXCEPT ![c].outcome = "fallback"]
    /\ process' = [process EXCEPT !.populated = @ + 1]
    /\ pc' = [pc EXCEPT ![c] = "initialized"]
    /\ UNCHANGED <<sseVars, fs, fsChanges, knowledge, calls, files, next, call, runs, frontEnd, unit,
                   cache, restarts>>

\* the loop of processAllDocuments, run for initializeKnowledgeBase
InitProcessFile(c) ==
    /\ frontEnd # "none"
    /\ pc[c] = "loop"
    /\ next[c] <= Len(files[c])
    /\ LoopIteration(c)
    /\ UNCHANGED <<sseVars, fs, fsChanges, calls, files, pc, runs, serverVars, unit>>

\* main() of the REST server: initializeKnowledgeBase before the server
\* is created
WebMain ==
    /\ frontEnd = "web"
    /\ pc[Main] = "start"
    /\ InitBegin(Main)
    /\ UNCHANGED <<sseVars, fs, fsChanges, runs, frontEnd, restarts, unit>>

\* main() of the REST server after initializeKnowledgeBase: listen
WebListen ==
    /\ frontEnd = "web"
    /\ pc[Main] = "initialized"
    /\ pc' = [pc EXCEPT ![Main] = "listening"]
    /\ UNCHANGED <<sseVars, fs, fsChanges, knowledge, calls, files, next, call, runs, serverVars, unit>>

\* main() of the stdio server: connect the transport
StdioMain ==
    /\ frontEnd = "stdio"
    /\ pc[Main] = "start"
    /\ pc' = [pc EXCEPT ![Main] = "listening"]
    /\ UNCHANGED <<sseVars, fs, fsChanges, knowledge, calls, files, next, call, runs, serverVars, unit>>

\* a request handler starts: initializeKnowledgeBase if knowledgeBase is null
\* (the handlers are numbered in the order their requests arrive)
Request(c) ==
    /\ pc[Main] = "listening"
    /\ pc[c] = "idle"
    /\ \A b \in Handlers : b < c => pc[b] # "idle"
    /\ IF knowledgeBase = <<>>
       THEN InitBegin(c)
       ELSE /\ pc' = [pc EXCEPT ![c] = "done"]
            /\ UNCHANGED <<sseVars, knowledge, calls, files, next, call, serverVars, unit>>
    /\ UNCHANGED <<sseVars, fs, fsChanges, runs, frontEnd, restarts, unit>>

\* the process ends and the program is started again, the cache file
\* deleted in between or not.  A process that ends while it initialises
\* has written nothing, and the one started after it is one started then.
Restart(del) ==
    /\ restarts < MaxRestarts
    /\ pc[Main] = "listening"
    /\ \A c \in Handlers : pc[c] \in {"idle", "initialized", "done"}
    /\ restarts' = restarts + 1
    /\ cache' = IF del THEN NoFile ELSE cache
    /\ process' = NewProcess(cache')
    /\ knowledgeBase' = <<>>
    /\ init' = [c \in Callers |-> NoInit]
    /\ knowledge' = [c \in Callers |-> EmptyKnowledge]
    /\ calls' = [c \in Callers |-> 0]
    /\ files' = [c \in Callers |-> <<>>]
    /\ next' = [c \in Callers |-> 1]
    /\ call' = [c \in Callers |-> NoCall]
    /\ pc' = [c \in Callers |-> IF c = Main THEN "start" ELSE "idle"]
    /\ UNCHANGED <<sseVars, fs, fsChanges, runs, frontEnd, unit>>

\* the document roots the servers are started on
ServerInitialFs ==
    { [p \in FsPaths |-> NoNode],
      [p \in FsPaths |-> IF p \in {Root, "documents/validation.docx"} THEN FullFs[p] ELSE NoNode],
      [p \in FsPaths |-> IF p = Root THEN DirNode("noread") ELSE NoNode] }

ServerInit ==
    /\ fs \in ServerInitialFs
    /\ fsChanges = 0
    /\ knowledge = [c \in Callers |-> EmptyKnowledge]
    /\ calls = [c \in Callers |-> 0]
    /\ files = [c \in Callers |-> <<>>]
    /\ next = [c \in Callers |-> 1]
    /\ pc = [c \in Callers |-> IF c = Main THEN "start" ELSE "idle"]
    /\ call = [c \in Callers |-> NoCall]
    /\ runs = <<>>
    /\ frontEnd \in {"web", "stdio"}
    /\ knowledgeBase = <<>>
    /\ cache \in {NoFile, Malformed}
    /\ init = [c \in Callers |-> NoInit]
    /\ process = NewProcess(cache)
    /\ restarts = 0
    /\ unit = NoUnit
    /\ NoSessions

ServerNext ==
    \/ WebMain
    \/ WebListen
    \/ StdioMain
    \/ \E c \in Handlers : Request(c)
    \/ \E c \in Callers : InitProcessFile(c)
    \/ \E c \in Callers : InitSave(c)
    \/ \E c \in Callers : InitCatch(c)
    \/ \E del \in BOOLEAN : Restart(del)
    \/ \E p \in FsPaths : Unlink(p)
    \/ \E p \in FsPaths : Rewrite(p)

ServerSpec == ServerInit /\ [][ServerNext]_vars

(***************************************************************************)
(* The resource handlers of the MCP server (web-server.ts, the handlers of *)
(* ListResourcesRequestSchema and ReadResourceRequestSchema), as functions *)
(* of the knowledge base kb they find initialised.                         *)
(***************************************************************************)
\* the characters of the model's strings that encodeURIComponent escapes,
\* with their escapes; letters, digits and - _ . ! ~ * ' ( ) are kept
PercentCodes ==
    { <<" ", "%20">>, <<"\n", "%0A">>, <<"\t", "%09">>, <<"\"", "%22">>, <<"#", "%23">>,
      <<"$", "%24">>, <<"%", "%25">>, <<"&", "%26">>, <<"+", "%2B">>, <<",", "%2C">>,
      <<"/", "%2F">>, <<":", "%3A">>, <<";", "%3B">>, <<"<", "%3C">>, <<"=", "%3D">>,
      <<">", "%3E">>, <<"?", "%3F">>, <<"@", "%40">>, <<"[", "%5B">>, <<"\\", "%5C">>,
      <<"]", "%5D">>, <<"^", "%5E">>, <<"{", "%7B">>, <<"|", "%7C">>,
      <<"}", "%7D">> }

RECURSIVE encodeURIComponent(_)
encodeURIComponent(s) ==
    IF s = "" THEN ""
    ELSE (IF \E c \in PercentCodes : c[1] = Char(s, 1)
          THEN (CHOOSE c \in PercentCodes : c[1] = Char(s, 1))[2]
          ELSE Char(s, 1))
           \o encodeURIComponent(SubSeq(s, 2, Len(s)))

\* decodeURIComponent of a string whose escapes are well formed
RECURSIVE decodeURIComponent(_)
decodeURIComponent(s) ==
    IF s = "" THEN ""
    ELSE IF \E c \in PercentCodes : StartsAt(s, 1, c[2])
         THEN (CHOOSE c \in PercentCodes : StartsAt(s, 1, c[2]))[1]
                \o decodeURIComponent(SubSeq(s, 4, Len(s)))
         ELSE Char(s, 1) \o decodeURIComponent(SubSeq(s, 2, Len(s)))

\* s.split('/')
RECURSIVE splitSlash(_)
splitSlash(s) ==
    Only({ IF n = Len(s) THEN <<s>>
           ELSE <<SubSeq(s, 1, n)>> \o splitSlash(SubSeq(s, n + 2, Len(s))) :
           n \in {SpanNotIn(s, 1, {"/"})} })

\* new URL(uri).pathname for a URI of a scheme that is not special (WHATWG
\* URL): after "scheme://" comes the host, up to the next '/', and the
\* path is what follows it; with no "//" the whole rest is the path
URLpathname(uri) ==
    Only({ IF StartsAt(rest, 1, "//")
           THEN SubSeq(rest, 3 + SpanNotIn(rest, 3, {"/"}), Len(rest))
           ELSE rest :
           rest \in {SubSeq(uri, SpanNotIn(uri, 1, {":"}) + 2, Len(uri))} })

\* the resources the ListResources handler returns
ListResources(kb) ==
    [ i \in 1..Len(kb.documents) |->
        [ uri      |-> "eudr://document/" \o encodeURIComponent(kb.documents[i].filename),
          mimeType |-> "text/plain",
          name     |-> kb.documents[i].title ] ]
      \o [ i \in 1..Len(kb.endpoints) |->
            [ uri      |-> "eudr://endpoint/" \o encodeURIComponent(kb.endpoints[i].name),
              mimeType |-> "application/json",
              name     |-> kb.endpoints[i].name ] ]
      \o [ i \in 1..Len(kb.examples) |->
            [ uri      |-> "eudr://example/" \o encodeURIComponent(kb.examples[i].name),
              mimeType |-> "application/xml",
              name     |-> kb.examples[i].name ] ]

\* array.find(e => e[field] === id), as <<e>>, or <<>> for undefined
find(array, field, id) ==
    Only({ IF hit = {} THEN <<>> ELSE <<array[Min(hit)]>> :
           hit \in {{i \in 1..Len(array) : array[i][field] = id}} })

\* the ReadResource handler on uri: [threw, text], text the message of the
\* Error when it throws; the JSON text of an endpoint is the value it denotes
ReadResource(kb, uri) ==
    Only({ Only({ CASE type = "document" ->
                         Only({ IF doc = <<>>
                                THEN [threw |-> TRUE, text |-> "Document " \o decodedId \o " not found"]
                                ELSE [threw |-> FALSE, text |-> doc[1].content] :
                                doc \in {find(kb.documents, "filename", decodedId)} })
                    [] type = "endpoint" ->
                         Only({ IF endpoint = <<>>
                                THEN [threw |-> TRUE, text |-> "Endpoint " \o decodedId \o " not found"]
                                ELSE [threw |-> FALSE, text |-> endpoint[1]] :
                                endpoint \in {find(kb.endpoints, "name", decodedId)} })
                    [] type = "example" ->
                         Only({ IF example = <<>>
                                THEN [threw |-> TRUE, text |-> "Example " \o decodedId \o " not found"]
                                ELSE [threw |-> FALSE, text |-> example[1].content] :
                                example \in {find(kb.examples, "name", decodedId)} })
                    [] OTHER -> [threw |-> TRUE, text |-> "Unknown resource type: " \o type] :
                  type \in {IF Len(parts) >= 2 THEN parts[2] ELSE "undefined"},
                  decodedId \in {decodeURIComponent(IF Len(parts) >= 3 THEN parts[3]
                                                     ELSE "undefined")} }) :
           parts \in {splitSlash(URLpathname(uri))} })

(***************************************************************************)
(* The helper methods of DocumentProcessor called on their own, on file    *)
(* names and document texts put together from the pieces below.            *)
(***************************************************************************)
\* file names: a transaction prefix, a stem and an extension
UnitPrefixes == {"", "CF2_", "cf7-", "Cf4 ", "cf1cf3", "cf5", "CF6", "cf1-CF2_"}

UnitStems ==
    {"Validation", "specification", "Development", "GeoJSON", "python", "Request",
     "Response", "Response-Request", "notes", "cf3 validation",
     "SubmitDDS_Request_Example", "Retract-Echo response", "statement_amend_request",
     "Retrieve request"}

UnitExtensions == {".xml", ".docx", ".pdf"}

UnitNames == {a \o b \o c : a \in UnitPrefixes, b \in UnitStems, c \in UnitExtensions}

\* the lines of the document texts
UnitLines ==
    {"GET /dds/plots", "delete  /dds", "endpoint: /dds", "url: plain", "forGET /dds now",
     "Rule: keep ids", "a plot MUST:  be closed  ", "should validation: x",
     "endpoint: /a.b", "PUT /axb", "URL:: /dds/plots"}

UnitContents == UnitLines \cup {a \o "\n" \o b : a, b \in UnitLines}

\* the document processDocument returns for a file of this name and text
UnitDocument(name, content) ==
    Only({ DocumentContent(pathJoin(DOCUMENTS_PATH, name), SubSeq(ext, 2, Len(ext)), content,
                           [size |-> Len(content), mtime |-> 1]) :
           ext \in {toLowerCase(extname(name))} })

\* the documents the helper methods are called on
\* document texts of several lines: an endpoint with a describing line
\* near it, and title lines
UnitTexts ==
    {"GET /x\n\n\nIt reports the state of things",
     "It reports the state of things\n\n\nGET /x",
     "GET /x\n\nIt reports the state of things",
     "It reports the state of things\n\n\n\nGET /x",
     "GET /x is the call to use here\nshort",
     "# Hello World\nBody text",
     "Title: Second\n# First",
     "Name\n===\nTitle: T",
     "Name\n====",
     "Name\n==",
     "#  \n  Spaced  ",
     "Body text"}

UnitDocuments ==
    {UnitDocument(name, content) : name \in UnitNames, content \in {"<a/>", "GET /dds/plots"}}
      \cup {UnitDocument(name, content) : name \in {"spec.docx", "notes.pdf"}, content \in UnitTexts}
      \cup {UnitDocument(name, content) :
              name \in {"Validation.docx", "CF2_Validation.docx", "notes.pdf"},
              content \in UnitContents}

\* the knowledge base after processAllDocuments on a root with one file
UnitKnowledge(doc) ==
    extractStructuredInfo([EmptyKnowledge EXCEPT !.documents = <<doc>>], doc)

UnitInit ==
    /\ fs = PlainFs
    /\ fsChanges = 0
    /\ knowledge = [c \in Callers |-> EmptyKnowledge]
    /\ calls = [c \in Callers |-> 0]
    /\ files = [c \in Callers |-> <<>>]
    /\ next = [c \in Callers |-> 1]
    /\ pc = [c \in Callers |-> "ready"]
    /\ call = [c \in Callers |-> NoCall]
    /\ runs = <<>>
    /\ frontEnd = "none"
    /\ knowledgeBase = <<>>
    /\ cache = NoFile
    /\ init = [c \in Callers |-> NoInit]
    /\ process = NewProcess(NoFile)
    /\ restarts = 0
    /\ unit \in {[NoUnit EXCEPT !.input = <<doc>>] : doc \in UnitDocuments}
    /\ NoSessions

CallCategorizeDocument ==
    /\ unit.op = "none"
    /\ unit' = [unit EXCEPT !.op = "categorizeDocument",
                            !.output = <<categorizeDocument(unit.input[1].filename)>>]
    /\ UNCHANGED <<sseVars, fs, fsChanges, pipelineVars, serverVars>>

CallExtractEndpoints ==
    /\ unit.op = "none"
    /\ unit' = [unit EXCEPT !.op = "extractEndpoints",
                            !.output = extractEndpoints(unit.input[1])]
    /\ UNCHANGED <<sseVars, fs, fsChanges, pipelineVars, serverVars>>

CallExtractExamples ==
    /\ unit.op = "none"
    /\ unit' = [unit EXCEPT !.op = "extractExamples",
                            !.output = extractExamples(unit.input[1])]
    /\ UNCHANGED <<sseVars, fs, fsChanges, pipelineVars, serverVars>>

CallExtractRules ==
    /\ unit.op = "none"
    /\ unit' = [unit EXCEPT !.op = "extractRules",
                            !.output = extractRules(unit.input[1])]
    /\ UNCHANGED <<sseVars, fs, fsChanges, pipelineVars, serverVars>>

CallExtractTitle ==
    /\ unit.op = "none"
    /\ unit' = [unit EXCEPT !.op = "extractTitle",
                            !.output = <<extractTitle(unit.input[1].filename,
                                                      unit.input[1].content)>>]
    /\ UNCHANGED <<sseVars, fs, fsChanges, pipelineVars, serverVars>>

\* a client lists the resources and reads one of them
CallReadResource ==
    /\ unit.op = "none"
    /\ \E kb \in {UnitKnowledge(unit.input[1])} :
          \E res \in {ListResources(kb)[i] : i \in 1..Len(ListResources(kb))} :
              unit' = [op |-> "ReadResource", input |-> <<unit.input[1], res.uri>>,
                       output |-> <<ReadResource(kb, res.uri)>>]
    /\ UNCHANGED <<sseVars, fs, fsChanges, pipelineVars, serverVars>>

UnitNext ==
    \/ CallCategorizeDocument
    \/ CallExtractEndpoints
    \/ CallExtractExamples
    \/ CallExtractRules
    \/ CallExtractTitle
    \/ CallReadResource

UnitSpec == UnitInit /\ [][UnitNext]_vars

(***************************************************************************)
(* The servers started on a cache file that another program wrote: JSON    *)
(* that parses, whatever it denotes.                                       *)
(***************************************************************************)
\* a cache file of one collection only, {"documents": []}
DocumentsOnly == [documents |-> <<>>]

ForeignCaches == {JsonFile(Null), JsonFile(DocumentsOnly), JsonFile(EmptyKnowledge)}

CacheInit ==
    /\ fs \in ServerInitialFs
    /\ fsChanges = 0
    /\ knowledge = [c \in Callers |-> EmptyKnowledge]
    /\ calls = [c \in Callers |-> 0]
    /\ files = [c \in Callers |-> <<>>]
    /\ next = [c \in Callers |-> 1]
    /\ pc = [c \in Callers |-> IF c = Main THEN "start" ELSE "idle"]
    /\ call = [c \in Callers |-> NoCall]
    /\ runs = <<>>
    /\ frontEnd \in {"web", "stdio"}
    /\ knowledgeBase = <<>>
    /\ cache \in ForeignCaches \cup {NoFile}
    /\ init = [c \in Callers |-> NoInit]
    /\ process = NewProcess(cache)
    /\ restarts = 0
    /\ unit = NoUnit
    /\ NoSessions

CacheSpec == CacheInit /\ [][ServerNext]_vars

(***************************************************************************)
(* One DocumentProcessor in the hands of its owner (src/unnamed/part_000   *)
(* constructs one, awaits processAllDocuments and then saveKnowledge): the *)
(* owner calls processAllDocuments again and again on the instance, and    *)
(* saveKnowledge and getKnowledge between or during the calls.             *)
(***************************************************************************)
InstanceInitialFs == ServerInitialFs \cup {FullFs}

InstanceInit ==
    /\ fs \in InstanceInitialFs
    /\ fsChanges = 0
    /\ knowledge = [c \in Callers |-> EmptyKnowledge]
    /\ calls = [c \in Callers |-> 0]
    /\ files = [c \in Callers |-> <<>>]
    /\ next = [c \in Callers |-> 1]
    /\ pc = [c \in Callers |-> "ready"]
    /\ call = [c \in Callers |-> NoCall]
    /\ runs = <<>>
    /\ frontEnd = "none"
    /\ knowledgeBase = <<>>
    /\ cache = NoFile
    /\ init = [c \in Callers |-> NoInit]
    /\ process = NewProcess(NoFile)
    /\ restarts = 0
    /\ unit = NoUnit
    /\ NoSessions

\* await processor.saveKnowledge(outputPath), between two calls
CallSaveKnowledge ==
    /\ pc[Client] \in {"ready", "returned", "raised"}
    /\ \E w \in WriteOutcomes : cache' = saveKnowledge(knowledge[Client], w)
    /\ UNCHANGED <<sseVars, fs, fsChanges, pipelineVars, frontEnd, knowledgeBase, init,
                   process, restarts, unit>>

\* processor.getKnowledge(), at any time: the value of this.knowledge
CallGetKnowledge ==
    /\ unit' = [op |-> "getKnowledge", input |-> <<>>, output |-> <<knowledge[Client]>>]
    /\ UNCHANGED <<sseVars, fs, fsChanges, pipelineVars, serverVars>>

InstanceNext ==
    \/ CallProcessAllDocuments
    \/ ProcessFile
    \/ ReturnKnowledge
    \/ CallSaveKnowledge
    \/ CallGetKnowledge

InstanceSpec == InstanceInit /\ [][InstanceNext]_vars

(***************************************************************************)
(* The SSE server (src/src/mcp-sse-server.ts): GET /mcp makes a transport, *)
(* registers it in the table transports under its sessionId and awaits     *)
(* server.connect; POST /messages looks the sessionId of the query up in   *)
(* the table.  A step is the code a handler runs from one await to the     *)
(* next.                                                                   *)
(***************************************************************************)
MaxSessions == 2

\* transport.sessionId of the n-th transport made: randomUUID()
randomUUID(n) == Char("abcdefgh", n)

\* the properties every object literal inherits
ObjectPrototype == {"constructor", "toString"}

\* transports[key], the table being an object literal: a transport, a
\* property of Object.prototype, or undefined
Lookup(table, key) ==
    IF key \in DOMAIN table THEN [kind |-> "transport", n |-> table[key]]
    ELSE IF key \in ObjectPrototype THEN [kind |-> "inherited", n |-> 0]
    ELSE [kind |-> "undefined", n |-> 0]

\* req.query.sessionId?.toString() || '' : the query holds the parameter
\* not at all (<<>>), once (a string) or more than once (an array, whose
\* toString joins its elements with commas)
RECURSIVE join(_)
join(values) ==
    IF Len(values) = 0 THEN ""
    ELSE IF Len(values) = 1 THEN values[1]
    ELSE values[1] \o "," \o join(Tail(values))

sessionIdOf(query) == join(query)

\* express.json() on the body of a request: req.body, or the 400 of a body
\* of type application/json that does not parse
expressJson(body) ==
    CASE body.kind = "malformed" -> [failed |-> TRUE, body |-> [id |-> <<>>]]
      [] body.kind = "json"      -> [failed |-> FALSE, body |-> body.value]
      [] OTHER                   -> [failed |-> FALSE, body |-> [id |-> <<>>]]

\* (req.body && req.body.id !== undefined) ? req.body.id : null
rpcIdOf(body) == IF body.id = <<>> THEN Null ELSE body.id[1]

\* what transport.handlePostMessage did with the request it was handed
TransportOutcomes == {"accepted", "rejected", "threwAnswered", "threwUnanswered"}

\* the answer to a POST that was handed to a transport
AnswerOf(outcome, rpcId) ==
    CASE outcome = "accepted"      -> [status |-> 202, code |-> 0, id |-> Null]
      [] outcome = "rejected"      -> [status |-> 400, code |-> 0, id |-> Null]
      [] outcome = "threwAnswered" -> [status |-> 500, code |-> 0, id |-> Null]
      [] OTHER                     -> [status |-> 500, code |-> -32603, id |-> rpcId]

\* a route of POST /messages that takes any transport of the table when the
\* sessionId names none
postMessages_AnyTransport(query, body, outcome) ==
    LET parsed    == expressJson(body)
        sessionId == sessionIdOf(query)
        rpcId     == rpcIdOf(parsed.body)
        found     == Lookup(transports, sessionId)
        transport == IF found.kind # "transport" /\ DOMAIN transports # {}
                     THEN [kind |-> "transport",
                           n |-> transports[CHOOSE id \in DOMAIN transports : TRUE]]
                     ELSE found
        seen      == [ query |-> query, body |-> body, registered |-> DOMAIN transports ]
    IN  IF parsed.failed
        THEN seen @@ [ to |-> 0, stateThen |-> "none", status |-> 400,
                       code |-> 0, id |-> Null ]
        ELSE IF transport.kind # "transport"
        THEN seen @@ [ to |-> 0, stateThen |-> "none", status |-> 404,
                       code |-> -32001, id |-> rpcId ]
        ELSE seen @@ [ to |-> transport.n, stateThen |-> connects[transport.n].state ]
                  @@ AnswerOf(outcome, rpcId)

\* app.post('/messages', express.json(), handler): the record of the request
\* and its answer; to is the transport that received it, 0 for none
postMessages(query, body, outcome) ==
    LET parsed    == expressJson(body)
        sessionId == sessionIdOf(query)
        rpcId     == rpcIdOf(parsed.body)
        transport == Lookup(transports, sessionId)
        seen      == [ query |-> query, body |-> body, registered |-> DOMAIN transports ]
    IN  IF parsed.failed
        THEN seen @@ [ to |-> 0, stateThen |-> "none", status |-> 400,
                       code |-> 0, id |-> Null ]
        ELSE IF transport.kind # "transport"
        THEN seen @@ [ to |-> 0, stateThen |-> "none", status |-> 404,
                       code |-> -32001, id |-> rpcId ]
        ELSE seen @@ [ to |-> transport.n, stateThen |-> connects[transport.n].state ]
                  @@ AnswerOf(outcome, rpcId)

\* the queries and bodies of the requests sent
Queries ==
    {<<>>, <<"zz">>, <<"constructor">>} \cup {<<randomUUID(n)>> : n \in 1..MaxSessions}
        \cup {<<randomUUID(1), randomUUID(1)>>}

Bodies ==
    { [kind |-> "absent"], [kind |-> "malformed"],
      [kind |-> "json", value |-> [id |-> <<>>]],
      [kind |-> "json", value |-> [id |-> <<[number |-> 7]>>]],
      [kind |-> "json", value |-> [id |-> <<Null>>]] }

SseInit ==
    /\ fs = FullFs
    /\ fsChanges = 0
    /\ knowledge = [c \in Callers |-> EmptyKnowledge]
    /\ calls = [c \in Callers |-> 0]
    /\ files = [c \in Callers |-> <<>>]
    /\ next = [c \in Callers |-> 1]
    /\ pc = [c \in Callers |-> "ready"]
    /\ call = [c \in Callers |-> NoCall]
    /\ runs = <<>>
    /\ frontEnd = "sse"
    /\ knowledgeBase = <<>>
    /\ cache = NoFile
    /\ init = [c \in Callers |-> NoInit]
    /\ process = NewProcess(NoFile)
    /\ restarts = 0
    /\ unit = NoUnit
    /\ NoSessions

\* GET /mcp up to its await: the transport is made and registered
GetMcp ==
    /\ Len(connects) < MaxSessions
    /\ LET n  == Len(connects) + 1
           id == randomUUID(n)
       IN  /\ transports' = [k \in DOMAIN transports \cup {id} |->
                                IF k = id THEN n ELSE transports[k]]
           /\ connects' = Append(connects, [sessionId |-> id, state |-> "connecting"])
    /\ UNCHANGED <<fs, fsChanges, pipelineVars, serverVars, unit, post>>

\* server.connect(transport) returns
ConnectReturns(n) ==
    /\ n \in 1..Len(connects)
    /\ connects[n].state = "connecting"
    /\ connects' = [connects EXCEPT ![n].state = "connected"]
    /\ UNCHANGED <<fs, fsChanges, pipelineVars, serverVars, unit, transports, post>>

\* server.connect(transport) throws: the catch block answers and deletes
\* the transport from the table
ConnectThrows(n) ==
    /\ n \in 1..Len(connects)
    /\ connects[n].state = "connecting"
    /\ connects' = [connects EXCEPT ![n].state = "failed"]
    /\ transports' = IF Lookup(transports, connects[n].sessionId).kind # "undefined"
                     THEN [k \in DOMAIN transports \ {connects[n].sessionId} |-> transports[k]]
                     ELSE transports
    /\ UNCHANGED <<fs, fsChanges, pipelineVars, serverVars, unit, post>>

\* the client of a connected transport goes away: no handler of the server
\* runs
Disconnect(n) ==
    /\ n \in 1..Len(connects)
    /\ connects[n].state = "connected"
    /\ connects' = [connects EXCEPT ![n].state = "closed"]
    /\ UNCHANGED <<fs, fsChanges, pipelineVars, serverVars, unit, transports, post>>

\* POST /messages
PostMessages(query, body) ==
    /\ \E outcome \in TransportOutcomes : post' = <<postMessages(query, body, outcome)>>
    /\ UNCHANGED <<fs, fsChanges, pipelineVars, serverVars, unit, transports, connects>>

SseNext ==
    \/ GetMcp
    \/ \E n \in 1..MaxSessions : ConnectReturns(n)
    \/ \E n \in 1..MaxSessions : ConnectThrows(n)
    \/ \E n \in 1..MaxSessions : Disconnect(n)
    \/ \E query \in Queries, body \in Bodies : PostMessages(query, body)

SseSpec == SseInit /\ [][SseNext]_vars

(***************************************************************************)
(* The tools of the two front ends of src/src/web-server.ts: the REST      *)
(* server's handleRequest with its five handle functions, and the stdio    *)
(* server's CallTool handler.  kb is the variable knowledgeBase as the     *)
(* handler finds it after its initialisation check: <<>> for null, else    *)
(* <<object>>.  A JavaScript value that may be undefined is <<>> or <<v>>, *)
(* v a string [string |-> s] or a number [number |-> n].                   *)
(***************************************************************************)
ArgNames == {"operation", "category", "type", "data", "search", "query", "document_type"}

\* the object {}
NoArguments == [a \in ArgNames |-> <<>>]

\* x && typeof x === 'string'
IsText(x) == x # <<>> /\ "string" \in DOMAIN x[1] /\ x[1].string # ""

\* x is truthy
Truthy(x) == x # <<>> /\ x[1] \notin {[string |-> ""], [number |-> 0]}

\* knowledgeBase!.collection is an array
Has(kb, collection) == kb # <<>> /\ collection \in DOMAIN kb[1]

Value(v) == [threw |-> FALSE, value |-> v]

TypeError == [threw |-> TRUE, value |-> <<>>]

\* a.toLowerCase().includes(b.toLowerCase())
lowerIncludes(a, b) == includes(toLowerCase(a), toLowerCase(b))

\* String.prototype.indexOf, 0-based, -1 when none
indexOf(s, sub) ==
    IF includes(s, sub) THEN Min({i \in 1..(Len(s) + 1) : StartsAt(s, i, sub)}) - 1 ELSE -1

\* String.prototype.substring for 0 <= start <= end
substring(s, start, end) == SubSeq(s, start + 1, Min({end, Len(s)}))

ExcerptRadius == 100

ExcerptDefault == 200

\* a handleQueryEndpoint that leaves the source out of its records
handleQueryEndpoint_NoSource(kb, args) ==
    IF ~Has(kb, "endpoints") THEN TypeError
    ELSE LET byOperation ==
                 IF IsText(args.operation)
                 THEN SelectSeq(kb[1].endpoints, LAMBDA e :
                          \/ lowerIncludes(e.name, args.operation[1].string)
                          \/ lowerIncludes(e.description, args.operation[1].string))
                 ELSE kb[1].endpoints
             endpoints ==
                 IF IsText(args.category)
                 THEN SelectSeq(byOperation, LAMBDA e :
                          lowerIncludes(e.category, args.category[1].string))
                 ELSE byOperation
         IN  IF Len(endpoints) = 0
             THEN Value("No endpoints found matching the criteria.")
             ELSE Value([ i \in 1..Len(endpoints) |->
                            [ name        |-> endpoints[i].name,
                              method      |-> endpoints[i].method,
                              url         |-> endpoints[i].url,
                              description |-> endpoints[i].description,
                              category    |-> endpoints[i].category ] ])

handleQueryEndpoint(kb, args) ==
    IF ~Has(kb, "endpoints") THEN TypeError
    ELSE LET byOperation ==
                 IF IsText(args.operation)
                 THEN SelectSeq(kb[1].endpoints, LAMBDA e :
                          \/ lowerIncludes(e.name, args.operation[1].string)
                          \/ lowerIncludes(e.description, args.operation[1].string))
                 ELSE kb[1].endpoints
             endpoints ==
                 IF IsText(args.category)
                 THEN SelectSeq(byOperation, LAMBDA e :
                          lowerIncludes(e.category, args.category[1].string))
                 ELSE byOperation
         IN  IF Len(endpoints) = 0
             THEN Value("No endpoints found matching the criteria.")
             ELSE Value([ i \in 1..Len(endpoints) |->
                            [ name        |-> endpoints[i].name,
                              method      |-> endpoints[i].method,
                              url         |-> endpoints[i].url,
                              description |-> endpoints[i].description,
                              category    |-> endpoints[i].category,
                              source      |-> endpoints[i].source ] ])

handleGetExamples(kb, args) ==
    IF ~Has(kb, "examples") THEN TypeError
    ELSE LET byOperation ==
                 IF IsText(args.operation)
                 THEN SelectSeq(kb[1].examples, LAMBDA e :
                          lowerIncludes(e.operation, args.operation[1].string))
                 ELSE kb[1].examples
             examples ==
                 IF IsText(args.type)
                 THEN SelectSeq(byOperation, LAMBDA e : e.type = args.type[1].string)
                 ELSE byOperation
         IN  IF Len(examples) = 0
             THEN Value("No examples found matching the criteria.")
             ELSE Value([ i \in 1..Len(examples) |->
                            [ name      |-> examples[i].name,
                              type      |-> examples[i].type,
                              operation |-> examples[i].operation,
                              content   |-> examples[i].content,
                              source    |-> examples[i].source ] ])

handleValidateStructure(kb, args) ==
    IF ~IsText(args.data) THEN Value("No data provided for validation.")
    ELSE IF ~Has(kb, "examples") THEN TypeError
    ELSE LET relevantExamples ==
                 IF IsText(args.operation)
                 THEN SelectSeq(kb[1].examples, LAMBDA e :
                          lowerIncludes(e.operation, args.operation[1].string))
                 ELSE kb[1].examples
         IN  Value([ provided_data     |-> args.data[1].string,
                     operation_context |-> IF Truthy(args.operation)
                                           THEN args.operation[1]
                                           ELSE [string |-> "Not specified"],
                     relevant_examples |->
                         [ i \in 1..Len(relevantExamples) |->
                             [ name      |-> relevantExamples[i].name,
                               type      |-> relevantExamples[i].type,
                               operation |-> relevantExamples[i].operation ] ],
                     validation_notes  |->
                         "Compare the provided data structure with the relevant examples above." ])

handleGetBusinessRules(kb, args) ==
    IF ~Has(kb, "rules") THEN TypeError
    ELSE LET byCategory ==
                 IF IsText(args.category)
                 THEN SelectSeq(kb[1].rules, LAMBDA r :
                          lowerIncludes(r.category, args.category[1].string))
                 ELSE kb[1].rules
             rules ==
                 IF IsText(args.search)
                 THEN SelectSeq(byCategory, LAMBDA r :
                          \/ lowerIncludes(r.name, args.search[1].string)
                          \/ lowerIncludes(r.description, args.search[1].string))
                 ELSE byCategory
         IN  IF Len(rules) = 0
             THEN Value("No business rules found matching the criteria.")
             ELSE Value(rules)

\* the excerpt of document d for query
Excerpt(d, query) ==
    LET index   == indexOf(toLowerCase(d.content), toLowerCase(query))
        excerpt == IF index >= 0
                   THEN substring(d.content, Max({0, index - ExcerptRadius}),
                                  Min({Len(d.content), index + Len(query) + ExcerptRadius}))
                   ELSE ""
    IN  IF excerpt # "" THEN excerpt
        ELSE substring(d.content, 0, ExcerptDefault) \o "..."

handleSearchDocumentation(kb, args) ==
    IF ~IsText(args.query) THEN Value("No search query provided.")
    ELSE IF ~Has(kb, "documents") THEN TypeError
    ELSE LET query == args.query[1].string
             byType ==
                 IF IsText(args.document_type)
                 THEN SelectSeq(kb[1].documents, LAMBDA d :
                          d.type = args.document_type[1].string)
                 ELSE kb[1].documents
             documents ==
                 IF IsText(args.category)
                 THEN SelectSeq(byType, LAMBDA d :
                          lowerIncludes(d.category, args.category[1].string))
                 ELSE byType
             searchResults ==
                 SelectSeq(documents, LAMBDA d :
                     \/ lowerIncludes(d.content, query)
                     \/ lowerIncludes(d.title, query)
                     \/ lowerIncludes(d.filename, query))
         IN  IF Len(searchResults) = 0
             THEN Value("No documents found matching the search criteria.")
             ELSE Value([ i \in 1..Len(searchResults) |->
                            [ filename |-> searchResults[i].filename,
                              title    |-> searchResults[i].title,
                              category |-> searchResults[i].category,
                              type     |-> searchResults[i].type,
                              excerpt  |-> Excerpt(searchResults[i], query) ] ])

\* JSON.stringify(value, null, 2): the text, modelled by the value it denotes
JSONtext(v) == [json |-> v]

\* a text that is written as it is
Plain(s) == [plain |-> s]

\* { content: [{ type: "text", text }] }
Content(text) == [threw |-> FALSE, text |-> text]

Message(s) == Content(Plain(s))

\* the CallTool handler of the stdio server on a request of name and
\* arguments args: the text of its content, or the Error it throws
CallTool(kb, name, args) ==
    CASE name = "query_endpoint" ->
           IF ~Has(kb, "endpoints") THEN [threw |-> TRUE, text |-> Plain("TypeError")]
           ELSE LET filtered ==
                        IF IsText(args.operation)
                        THEN SelectSeq(kb[1].endpoints, LAMBDA e :
                                 \/ includes(toLowerCase(e.name),
                                             toLowerCase(args.operation[1].string))
                                 \/ includes(toLowerCase(e.description),
                                             toLowerCase(args.operation[1].string)))
                        ELSE kb[1].endpoints
                    endpoints ==
                        IF IsText(args.category)
                        THEN SelectSeq(filtered, LAMBDA e :
                                 includes(toLowerCase(e.category),
                                          toLowerCase(args.category[1].string)))
                        ELSE filtered
                IN  IF Len(endpoints) = 0
                    THEN Message("No endpoints found matching the criteria.")
                    ELSE Content(JSONtext(
                             [ i \in 1..Len(endpoints) |->
                                 [ name        |-> endpoints[i].name,
                                   method      |-> endpoints[i].method,
                                   url         |-> endpoints[i].url,
                                   description |-> endpoints[i].description,
                                   category    |-> endpoints[i].category,
                                   source      |-> endpoints[i].source ] ]))
      [] name = "get_examples" ->
           IF ~Has(kb, "examples") THEN [threw |-> TRUE, text |-> Plain("TypeError")]
           ELSE LET filtered ==
                        IF IsText(args.operation)
                        THEN SelectSeq(kb[1].examples, LAMBDA e :
                                 includes(toLowerCase(e.operation),
                                          toLowerCase(args.operation[1].string)))
                        ELSE kb[1].examples
                    examples ==
                        IF IsText(args.type)
                        THEN SelectSeq(filtered, LAMBDA e : e.type = args.type[1].string)
                        ELSE filtered
                IN  IF Len(examples) = 0
                    THEN Message("No examples found matching the criteria.")
                    ELSE Content(JSONtext(
                             [ i \in 1..Len(examples) |->
                                 [ name      |-> examples[i].name,
                                   type      |-> examples[i].type,
                                   operation |-> examples[i].operation,
                                   content   |-> examples[i].content,
                                   source    |-> examples[i].source ] ]))
      [] name = "validate_structure" ->
           IF ~IsText(args.data) THEN Message("No data provided for validation.")
           ELSE IF ~Has(kb, "examples") THEN [threw |-> TRUE, text |-> Plain("TypeError")]
           ELSE LET relevantExamples ==
                        IF IsText(args.operation)
                        THEN SelectSeq(kb[1].examples, LAMBDA e :
                                 includes(toLowerCase(e.operation),
                                          toLowerCase(args.operation[1].string)))
                        ELSE kb[1].examples
                IN  Content(JSONtext(
                        [ provided_data     |-> args.data[1].string,
                          operation_context |-> IF Truthy(args.operation)
                                                THEN args.operation[1]
                                                ELSE [string |-> "Not specified"],
                          relevant_examples |->
                              [ i \in 1..Len(relevantExamples) |->
                                  [ name      |-> relevantExamples[i].name,
                                    type      |-> relevantExamples[i].type,
                                    operation |-> relevantExamples[i].operation ] ],
                          validation_notes  |->
                              "Compare the provided data structure with the relevant examples above." ]))
      [] name = "get_business_rules" ->
           IF ~Has(kb, "rules") THEN [threw |-> TRUE, text |-> Plain("TypeError")]
           ELSE LET filtered ==
                        IF IsText(args.category)
                        THEN SelectSeq(kb[1].rules, LAMBDA r :
                                 includes(toLowerCase(r.category),
                                          toLowerCase(args.category[1].string)))
                        ELSE kb[1].rules
                    rules ==
                        IF IsText(args.search)
                        THEN SelectSeq(filtered, LAMBDA r :
                                 \/ includes(toLowerCase(r.name),
                                             toLowerCase(args.search[1].string))
                                 \/ includes(toLowerCase(r.description),
                                             toLowerCase(args.search[1].string)))
                        ELSE filtered
                IN  IF Len(rules) = 0
                    THEN Message("No business rules found matching the criteria.")
                    ELSE Content(JSONtext(rules))
      [] name = "search_documentation" ->
           IF ~IsText(args.query) THEN Message("No search query provided.")
           ELSE IF ~Has(kb, "documents") THEN [threw |-> TRUE, text |-> Plain("TypeError")]
           ELSE LET query == args.query[1].string
                    typed ==
                        IF IsText(args.document_type)
                        THEN SelectSeq(kb[1].documents, LAMBDA d :
                                 d.type = args.document_type[1].string)
                        ELSE kb[1].documents
                    documents ==
                        IF IsText(args.category)
                        THEN SelectSeq(typed, LAMBDA d :
                                 includes(toLowerCase(d.category),
                                          toLowerCase(args.category[1].string)))
                        ELSE typed
                    searchResults ==
                        SelectSeq(documents, LAMBDA d :
                            \/ includes(toLowerCase(d.content), toLowerCase(query))
                            \/ includes(toLowerCase(d.title), toLowerCase(query))
                            \/ includes(toLowerCase(d.filename), toLowerCase(query)))
                IN  IF Len(searchResults) = 0
                    THEN Message("No documents found matching the search criteria.")
                    ELSE Content(JSONtext(
                             [ i \in 1..Len(searchResults) |->
                                 LET d       == searchResults[i]
                                     index   == indexOf(toLowerCase(d.content),
                                                        toLowerCase(query))
                                     start   == Max({0, index - ExcerptRadius})
                                     end     == Min({Len(d.content),
                                                     index + Len(query) + ExcerptRadius})
                                     excerpt == IF index >= 0
                                                THEN substring(d.content, start, end)
                                                ELSE ""
                                 IN  [ filename |-> d.filename,
                                       title    |-> d.title,
                                       category |-> d.category,
                                       type     |-> d.type,
                                       excerpt  |-> IF excerpt # "" THEN excerpt
                                                    ELSE substring(d.content, 0, ExcerptDefault)
                                                           \o "..." ] ]))
      [] OTHER -> [threw |-> TRUE, text |-> Plain("Unknown tool: " \o name)]

\* the resources the REST server lists at /resources
Resources(kb) ==
    [ i \in 1..Len(kb.documents) |->
        [ uri         |-> "eudr://document/" \o encodeURIComponent(kb.documents[i].filename),
          mimeType    |-> "text/plain",
          name        |-> kb.documents[i].title,
          description |-> kb.documents[i].category \o " - " \o kb.documents[i].filename
                            \o " (" \o toUpperCase(kb.documents[i].type) \o ")" ] ]
      \o [ i \in 1..Len(kb.endpoints) |->
            [ uri         |-> "eudr://endpoint/" \o encodeURIComponent(kb.endpoints[i].name),
              mimeType    |-> "application/json",
              name        |-> kb.endpoints[i].name,
              description |-> kb.endpoints[i].method \o " " \o kb.endpoints[i].url
                                \o " - " \o kb.endpoints[i].description ] ]
      \o [ i \in 1..Len(kb.examples) |->
            [ uri         |-> "eudr://example/" \o encodeURIComponent(kb.examples[i].name),
              mimeType    |-> "application/xml",
              name        |-> kb.examples[i].name,
              description |-> kb.examples[i].type \o " example for "
                                \o kb.examples[i].operation ] ]

\* sendJSON(res, data, statusCode), sendError(res, message, statusCode)
sendJSON(data, statusCode) == [status |-> statusCode, body |-> <<JSONtext(data)>>]

sendError(message, statusCode) == sendJSON([error |-> message], statusCode)

\* body.arguments || {} of a parsed body, destructured
ArgumentsOf(body) ==
    IF body.arguments = <<>> \/ "string" \in DOMAIN body.arguments[1]
    THEN NoArguments
    ELSE body.arguments[1]

FiveTools == { "query_endpoint", "get_examples", "validate_structure",
               "get_business_rules", "search_documentation" }

\* the switch of handleRequest on toolName
ToolResult(kb, toolName, args) ==
    CASE toolName = "query_endpoint"       -> handleQueryEndpoint(kb, args)
      [] toolName = "get_examples"         -> handleGetExamples(kb, args)
      [] toolName = "validate_structure"   -> handleValidateStructure(kb, args)
      [] toolName = "get_business_rules"   -> handleGetBusinessRules(kb, args)
      [] OTHER                             -> handleSearchDocumentation(kb, args)

HexDigits == "0123456789ABCDEFabcdef"

IsHex(c) == \E i \in 1..Len(HexDigits) : Char(HexDigits, i) = c

\* decodeURIComponent(s) throws URIError: a '%' without two hexadecimal
\* digits after it
MalformedEscape(s) ==
    \E i \in 1..Len(s) :
        /\ Char(s, i) = "%"
        /\ ~(i + 2 <= Len(s) /\ IsHex(Char(s, i + 1)) /\ IsHex(Char(s, i + 2)))

\* url.parse(req.url, true) of a request target without query or fragment:
\* a target of the form //auth@host... is read as naming a host, and its
\* auth is decoded with decodeURIComponent; any other target is its own
\* pathname
urlParse(target) ==
    IF ~StartsAt(target, 1, "//") THEN [threw |-> FALSE, pathname |-> target]
    ELSE Only({ IF n >= 1 /\ StartsAt(target, 3 + n, "@")
                     /\ SpanNotIn(target, 4 + n, {"@", "/"}) >= 1
                THEN [ threw    |-> MalformedEscape(SubSeq(target, 3, 2 + n)),
                       pathname |-> SubSeq(target, 4 + n + SpanNotIn(target, 4 + n, {"/"}),
                                           Len(target)) ]
                ELSE [threw |-> FALSE, pathname |-> target] :
                n \in {SpanNotIn(target, 3, {"@", "/"})} })

pathnameOf(target) == urlParse(target).pathname

\* handleRequest on request req: the responses it sends, in order; none
\* when url.parse, which is called before the try block, throws
handleRequest(kb, req) ==
    IF urlParse(req.url).threw THEN <<>>
    ELSE IF req.method = "OPTIONS" THEN <<[status |-> 200, body |-> <<>>]>>
    ELSE IF pathnameOf(req.url) = "/health"
    THEN IF kb = <<>>
         THEN <<sendJSON([status |-> "healthy", documents |-> 0, endpoints |-> 0,
                          examples |-> 0], 200)>>
         ELSE IF {"documents", "endpoints", "examples"} \subseteq DOMAIN kb[1]
         THEN <<sendJSON([status |-> "healthy",
                          documents |-> Len(kb[1].documents),
                          endpoints |-> Len(kb[1].endpoints),
                          examples  |-> Len(kb[1].examples)], 200)>>
         ELSE <<sendError("Internal server error", 500)>>
    ELSE IF pathnameOf(req.url) = "/info"
    THEN <<sendJSON([name |-> "EUDR MCP Server", version |-> "0.1.0",
                     description |-> "Model Context Protocol server for EUDR API documentation",
                     capabilities |-> <<"resources", "tools", "prompts">>,
                     transport |-> "HTTP REST"], 200)>>
    ELSE IF pathnameOf(req.url) = "/resources"
    THEN IF Has(kb, "documents") /\ Has(kb, "endpoints") /\ Has(kb, "examples")
         THEN <<sendJSON([resources |-> Resources(kb[1])], 200)>>
         ELSE <<sendError("Internal server error", 500)>>
    ELSE IF StartsAt(pathnameOf(req.url), 1, "/tools/")
    THEN LET toolName == SubSeq(pathnameOf(req.url), 8, Len(pathnameOf(req.url)))
         IN  IF req.method # "POST" THEN <<sendError("Method not allowed", 405)>>
             ELSE IF req.body.kind = "malformed" \/ req.body = [kind |-> "json", value |-> Null]
             THEN <<sendError("Internal server error", 500)>>
             ELSE IF toolName \notin FiveTools
             THEN <<sendError("Unknown tool: " \o toolName, 404)>>
             ELSE Only({ IF result.threw
                         THEN <<sendError("Internal server error", 500)>>
                         ELSE <<sendJSON([result |-> result.value], 200)>> :
                         result \in { ToolResult(kb, toolName,
                                        IF req.body.kind = "absent" THEN NoArguments
                                        ELSE ArgumentsOf(req.body.value)) } })
    ELSE <<sendError("Not found", 404)>>

(***************************************************************************)
(* One request to a front end, on a knowledge base as its initialisation   *)
(* left it: the input is drawn at the start and each handler answers it    *)
(* once.                                                                   *)
(***************************************************************************)
RECURSIVE processAll(_, _, _)
processAll(k, f, paths) ==
    IF paths = <<>> THEN k
    ELSE processAll(processOneFile(k, f, Head(paths)), f, Tail(paths))

\* the output of processAllDocuments on the full document root
FullKnowledge == processAll(EmptyKnowledge, FullFs, getAllFiles(FullFs, DOCUMENTS_PATH).files)

\* knowledgeBase after initializeKnowledgeBase: null, empty, the output of
\* the pipeline, or what a foreign cache file held
FrontKnowledgeBases == {<<>>, <<EmptyKnowledge>>, <<FullKnowledge>>, <<DocumentsOnly>>}

WithArguments(fields) ==
    [a \in ArgNames |-> IF a \in DOMAIN fields THEN <<fields[a]>> ELSE <<>>]

ArgumentSets ==
    { NoArguments,
      WithArguments([operation |-> [string |-> "echo"]]),
      WithArguments([operation |-> [string |-> "PLOTS"]]),
      WithArguments([operation |-> [string |-> "zzz"]]),
      WithArguments([operation |-> [number |-> 5]]),
      WithArguments([category |-> [string |-> "validation"]]),
      WithArguments([type |-> [string |-> "request"]]),
      WithArguments([type |-> [string |-> "response"]]),
      WithArguments([data |-> [string |-> "<a/>"]]),
      WithArguments([data |-> [string |-> "<a/>"], operation |-> [string |-> "Echo"]]),
      WithArguments([data |-> [string |-> "<a/>"], operation |-> [number |-> 5]]),
      WithArguments([data |-> [number |-> 5]]),
      WithArguments([search |-> [string |-> "plots"]]),
      WithArguments([category |-> [string |-> "Validation"], search |-> [string |-> "zzz"]]),
      WithArguments([query |-> [string |-> "status"]]),
      WithArguments([query |-> [string |-> "REQUEST"]]),
      WithArguments([query |-> [string |-> "a"], document_type |-> [string |-> "pdf"]]),
      WithArguments([query |-> [string |-> "a"], category |-> [string |-> "rules"]]),
      WithArguments([query |-> [string |-> ""]]),
      WithArguments([query |-> [string |-> "zzz"]]) }

ObjectBodies ==
    {[kind |-> "json", value |-> [arguments |-> <<args>>]] : args \in ArgumentSets}
        \cup {[kind |-> "absent"], [kind |-> "json", value |-> [arguments |-> <<>>]]}

OtherBodies ==
    { [kind |-> "malformed"], [kind |-> "json", value |-> Null],
      [kind |-> "json", value |-> [arguments |-> <<[string |-> "x"]>>]] }

Methods == {"GET", "POST", "OPTIONS", "DELETE"}

ToolPaths == {"/tools/" \o t : t \in FiveTools \cup {"nope", ""}}

\* request targets: paths, and two that name a host with credentials
Targets ==
    {"/health", "/info", "/resources", "/", "/tools", "/health/x", "//u@x/health",
     "//%@x/health"} \cup ToolPaths

FrontRequests ==
    { [method |-> m, url |-> p, body |-> b] :
        m \in Methods, p \in Targets, b \in {[kind |-> "absent"], [kind |-> "malformed"]} }
      \cup { [method |-> "POST", url |-> p, body |-> b] :
               p \in ToolPaths, b \in ObjectBodies \cup OtherBodies }

FrontInit ==
    /\ fs = FullFs
    /\ fsChanges = 0
    /\ knowledge = [c \in Callers |-> EmptyKnowledge]
    /\ calls = [c \in Callers |-> 0]
    /\ files = [c \in Callers |-> <<>>]
    /\ next = [c \in Callers |-> 1]
    /\ pc = [c \in Callers |-> "ready"]
    /\ call = [c \in Callers |-> NoCall]
    /\ runs = <<>>
    /\ frontEnd = "none"
    /\ knowledgeBase = <<>>
    /\ cache = NoFile
    /\ init = [c \in Callers |-> NoInit]
    /\ process = NewProcess(NoFile)
    /\ restarts = 0
    /\ unit \in {[NoUnit EXCEPT !.input = <<kb, req>>] :
                   kb \in FrontKnowledgeBases, req \in FrontRequests}
    /\ NoSessions

\* the request is one the stdio server can be sent as a tools/call: a name
\* and an object of arguments, or none
IsToolsCall(req) ==
    /\ req.method = "POST"
    /\ req.url \in ToolPaths
    /\ req.body \in ObjectBodies

ToolNameOf(req) == SubSeq(req.url, 8, Len(req.url))

ToolArgumentsOf(req) ==
    IF req.body.kind = "absent" THEN NoArguments ELSE ArgumentsOf(req.body.value)

\* the REST server answers the request
HandleRequest ==
    /\ unit.op = "none"
    /\ unit' = [unit EXCEPT !.op = "handleRequest",
                            !.output = handleRequest(unit.input[1], unit.input[2])]
    /\ UNCHANGED <<fs, fsChanges, pipelineVars, serverVars, sseVars>>

\* the stdio server answers the same call
StdioCallTool ==
    /\ unit.op = "none"
    /\ IsToolsCall(unit.input[2])
    /\ unit' = [unit EXCEPT !.op = "CallTool",
                            !.output = <<CallTool(unit.input[1], ToolNameOf(unit.input[2]),
                                                  ToolArgumentsOf(unit.input[2]))>>]
    /\ UNCHANGED <<fs, fsChanges, pipelineVars, serverVars, sseVars>>

FrontNext ==
    \/ HandleRequest
    \/ StdioCallTool

FrontSpec == FrontInit /\ [][FrontNext]_vars

(***************************************************************************)
(* Properties of the pipeline (Spec).                                      *)
(***************************************************************************)
FinishedRuns == {runs[i] : i \in 1..Len(runs)}

\* the documents a finished call appended
NewDocuments(r) ==
    SubSeq(r.result.documents, Len(r.before.documents) + 1, Len(r.result.documents))

DocumentsAt(r, path) ==
    {k \in 1..Len(NewDocuments(r)) : NewDocuments(r)[k].metadata.path = path}

NewRecords(before, after) == SubSeq(after, Len(before) + 1, Len(after))

FromSource(records, filename) ==
    {k \in 1..Len(records) : records[k].source = filename}

\* what the error document of each file of the tree is to be: its content,
\* its title and category (from the file name, the content having no title
\* line), and the records structured extraction makes of it (an example
\* for the XML file, whose name holds "request")
ErrorDocuments ==
    { [ path |-> "documents/Request.XML", filename |-> "Request.XML", type |-> "xml",
        content |-> "Error processing XML: documents/Request.XML",
        title |-> "Request", category |-> "Request Examples",
        endpoints |-> 0, examples |-> 1, rules |-> 0 ],
      [ path |-> "documents/sub/api.pdf", filename |-> "api.pdf", type |-> "pdf",
        content |-> "Error processing PDF: documents/sub/api.pdf",
        title |-> "api", category |-> "General",
        endpoints |-> 0, examples |-> 0, rules |-> 0 ],
      [ path |-> "documents/validation.docx", filename |-> "validation.docx", type |-> "docx",
        content |-> "Error processing DOCX: documents/validation.docx",
        title |-> "validation", category |-> "Validation Rules",
        endpoints |-> 0, examples |-> 0, rules |-> 0 ] }

\* C1: a discovered file whose format decoder (DOCX, XML read, PDF) throws
\* has exactly one document in the returned documents, with content
\* "Error processing <FORMAT>: <path>", classified, and with the records of
\* structured extraction in the knowledge base.
C1_DecoderErrorKeepsDocument ==
    \A r \in FinishedRuns : \A j \in 1..Len(r.entries) :
        r.entries[j].outcome = "decoderThrew" =>
            \E x \in ErrorDocuments :
                /\ x.path = r.entries[j].path
                /\ Cardinality(DocumentsAt(r, x.path)) = 1
                /\ \A k \in DocumentsAt(r, x.path) :
                      /\ NewDocuments(r)[k].content = x.content
                      /\ NewDocuments(r)[k].filename = x.filename
                      /\ NewDocuments(r)[k].type = x.type
                      /\ NewDocuments(r)[k].title = x.title
                      /\ NewDocuments(r)[k].category = x.category
                /\ Cardinality(FromSource(NewRecords(r.before.endpoints, r.result.endpoints),
                                          x.filename)) = x.endpoints
                /\ Cardinality(FromSource(NewRecords(r.before.examples, r.result.examples),
                                          x.filename)) = x.examples
                /\ Cardinality(FromSource(NewRecords(r.before.rules, r.result.rules),
                                          x.filename)) = x.rules
                /\ \A k \in FromSource(NewRecords(r.before.examples, r.result.examples),
                                       x.filename) :
                      NewRecords(r.before.examples, r.result.examples)[k].content = x.content

\* C1 witness: a call has returned in which the XML file could not be read,
\* and its error document made an example
C1_Witness ==
    \E r \in FinishedRuns : \E j \in 1..Len(r.entries) :
        /\ r.entries[j].outcome = "decoderThrew"
        /\ r.entries[j].path = "documents/Request.XML"
        /\ \E k \in 1..Len(r.result.examples) :
              r.result.examples[k].content = "Error processing XML: documents/Request.XML"

\* C2: a file whose processing throws past processDocument's handler (its
\* stat fails after discovery) has no document; every other discovered file
\* is processed and has its document; the call returns.
C2_EscapedErrorSkipsOnlyThatFile ==
    \A r \in FinishedRuns :
        (\E j \in 1..Len(r.entries) : r.entries[j].outcome = "statThrew") =>
            /\ ~r.raised
            /\ Len(r.entries) = Len(r.discovered)
            /\ \A j \in 1..Len(r.entries) :
                  /\ r.entries[j].path = r.discovered[j]
                  /\ Cardinality(DocumentsAt(r, r.entries[j].path))
                       = (IF r.entries[j].outcome = "statThrew" THEN 0 ELSE 1)

\* C2 witness: a call returned that skipped one file and kept another
C2_Witness ==
    \E r \in FinishedRuns :
        /\ \E j \in 1..Len(r.entries) : r.entries[j].outcome = "statThrew"
        /\ \E j \in 1..Len(r.entries) : r.entries[j].outcome = "decoded"
        /\ Len(NewDocuments(r)) >= 1

\* C3: processAllDocuments never raises, whatever the file system's state,
\* failures during file discovery included.
C3_ProcessAllNeverRaises == \A c \in Callers : pc[c] # "raised"

\* C4: when the document root does not exist, discovery returns the empty
\* sequence without raising, and processAllDocuments on a fresh processor
\* returns a knowledge base with four empty collections.
C4_MissingRootGivesEmptyKnowledge ==
    \A r \in FinishedRuns :
        r.fsThen[Root].kind = "none" =>
            /\ getAllFiles(r.fsThen, DOCUMENTS_PATH) = [threw |-> FALSE, files |-> <<>>]
            /\ ~r.raised
            /\ r.discovered = <<>>
            /\ r.fresh => r.result = EmptyKnowledge

C4_Witness ==
    \E r \in FinishedRuns : r.fsThen[Root].kind = "none" /\ r.fresh /\ ~r.raised

\* the entries of the tree whose extension is docx, xml or pdf in any case
SupportedEntries ==
    { "documents/Request.XML", "documents/sub/api.pdf", "documents/sub/validation.docx",
      "documents/validation.docx" }

\* file names with whether their extension is docx, xml or pdf in any case
SupportedSamples ==
    { <<"a.docx", TRUE>>, <<"A.DOCX", TRUE>>, <<"b.Xml", TRUE>>, <<"c.pdf", TRUE>>,
      <<"a.b.XML", TRUE>>, <<"pdf.PDF", TRUE>>, <<"notes.txt", FALSE>>,
      <<"archive.pdf.bak", FALSE>>, <<"docx", FALSE>>, <<"a.xmlx", FALSE>>,
      <<"a.doc", FALSE>>, <<"sub", FALSE>> }

\* the entries of f that are files below directories all the way up
FilesUnder(f) ==
    IF f[Root].kind # "dir" THEN {}
    ELSE {p \in {"documents/Request.XML", "documents/notes.txt", "documents/validation.docx"} :
             f[p].kind = "file"}
           \cup (IF f["documents/sub"].kind = "dir"
                 THEN {p \in {"documents/sub/api.pdf", "documents/sub/validation.docx"} :
                         f[p].kind = "file"}
                 ELSE {})

SamplesAgree == \A x \in SupportedSamples : isSupportedFile(x[1]) = x[2]

\* C5: getAllFiles returns exactly the files under the root, at any depth,
\* whose extension is docx, xml or pdf in any case, each once and no
\* directory; isSupportedFile is true of exactly the names with such an
\* extension.
C5_DiscoveryIsExact ==
    /\ \A c \in Callers :
          pc[c] \in {"loop", "returned"} =>
              /\ {files[c][i] : i \in 1..Len(files[c])}
                   = FilesUnder(call[c].fsThen) \cap SupportedEntries
              /\ Cardinality({files[c][i] : i \in 1..Len(files[c])}) = Len(files[c])
              /\ \A i \in 1..Len(files[c]) : call[c].fsThen[files[c][i]].kind = "file"
    /\ SamplesAgree

\* C5 witness: a traversal found the three supported files, one of them in
\* the subdirectory, beside an unsupported file
C5_Witness ==
    /\ pc[Client] = "loop"
    /\ Len(files[Client]) = 3
    /\ call[Client].fsThen["documents/notes.txt"].kind = "file"

SameRoot(a, b) == a.changesAtStart = b.changesAtEnd

C6_PopulatedOnce ==
    frontEnd = "stdio" =>
        /\ process.cacheLoads + process.pipelineRuns <= 1
        /\ process.cacheWrites <= 1
        /\ process.populated <= 1

InitOutcomes == {"loaded", "processed", "fallback"}

\* this step ends caller c's initializeKnowledgeBase
Completes(c) == init[c].outcome \notin InitOutcomes /\ init'[c].outcome \in InitOutcomes

\* the cache file existed when the initializeKnowledgeBase that this step
\* ends looked for it
ExistedAtCheck(c) == init[c].outcome # "running" /\ cache.kind # "none"

\* the step that ends c's initializeKnowledgeBase is its catch block
EndsInCatch(c) ==
    \/ pc[c] \in {"raised", "saveFailed"}
    \/ init[c].outcome # "running" /\ cache.kind = "malformed"

Convention(c) ==
    IF ExistedAtCheck(c)
    THEN /\ cache.kind = "json"
         /\ knowledgeBase' = <<JSONparse(cache.value)>>
         /\ process'.pipelineRuns = process.pipelineRuns
         /\ UNCHANGED <<sseVars, cache, knowledge, calls>>
    ELSE /\ pc[c] = "loop"
         /\ Len(call[c].entries) = Len(files[c])
         /\ cache'.kind = "json"
         /\ cache'.value = JSONstringify(knowledge'[c])
         /\ knowledgeBase' = <<knowledge'[c]>>

\* C7 as stated: an initializeKnowledgeBase that found the cache file ends
\* with knowledgeBase the deserialised cache, no pipeline run and no write;
\* one that found no cache file ends after a pipeline run with the cache
\* file holding the serialisation of the pipeline's output, which is
\* knowledgeBase.
C7_CacheLoadConvention ==
    [][\A c \in Callers : Completes(c) => Convention(c)]_vars

\* C7 amended: the same when no step of initializeKnowledgeBase raises; when
\* one does (the cache cannot be read or parsed, file discovery or the
\* write of the cache raises), knowledgeBase becomes the empty knowledge
\* base.
C7_CacheLoadConventionOrFallback ==
    [][\A c \in Callers :
          Completes(c) =>
              IF EndsInCatch(c)
              THEN knowledgeBase' = <<EmptyKnowledge>>
              ELSE Convention(c)]_vars

\* C7 witness: after a restart an initialisation loaded the cache that an
\* earlier one wrote from a pipeline run with a document
C7_Witness ==
    /\ restarts > 0
    /\ \E c \in Callers : init[c].outcome = "loaded"
    /\ knowledgeBase # <<>>
    /\ knowledgeBase[1].documents # <<>>

\* C8: for every knowledge base K the pipeline produced and saveKnowledge
\* wrote, JSON.parse of the file equals K, field by field, the documents'
\* metadata (size, modified, path) included.
C8_RoundTrip ==
    \A c \in Callers :
        init[c].outcome = "processed" => JSONparse(init[c].written.value) = knowledge[c]

\* C10: a process started when the cache file exists does not run the
\* pipeline and does not write the cache, and its knowledgeBase is the one
\* stored in the cache, whatever has happened to the document root since.
C10_CachedBootstrapIdempotent ==
    process.bootCache.kind = "json" =>
        /\ process.pipelineRuns = 0
        /\ process.cacheWrites = 0
        /\ cache = process.bootCache
        /\ knowledgeBase # <<>> => knowledgeBase = <<JSONparse(process.bootCache.value)>>
        /\ (\E c \in Callers : pc[c] \in {"initialized", "done"}) => knowledgeBase # <<>>
        /\ (frontEnd = "web" /\ pc[Main] = "listening") => knowledgeBase # <<>>

\* C10 witness: a restarted process serves a document from the cache whose
\* file has been deleted since
C10_Witness ==
    /\ restarts > 0
    /\ process.bootCache.kind = "json"
    /\ knowledgeBase # <<>>
    /\ knowledgeBase[1].documents # <<>>
    /\ knowledgeBase[1].documents[1].metadata.path = "documents/validation.docx"
    /\ fs["documents/validation.docx"].kind = "none"

(***************************************************************************)
(* Order and keys of the knowledge base (Spec).                            *)
(***************************************************************************)
\* the indices of the discovered files of run r that were not skipped
KeptEntries(r) ==
    {j \in 1..Len(r.entries) : r.entries[j].outcome # "statThrew"}

\* the records structured extraction makes of the documents docs, document
\* after document; field is "endpoints", "examples" or "rules"
RECURSIVE RecordsInOrder(_, _)
RecordsInOrder(docs, field) ==
    IF docs = <<>> THEN <<>>
    ELSE (CHOOSE x \in StructuredInfo : x[1] = Head(docs))[2][field]
           \o RecordsInOrder(Tail(docs), field)

\* C11: documents are processed one at a time in discovery order: the
\* documents a call appends are the discovered files in their order without
\* the skipped ones, and the endpoints, examples and rules it appends are
\* the records of its documents, document after document; while the loop
\* runs, exactly the files before the next one have been dealt with.
C11_DiscoveryOrderKept ==
    /\ \A r \in FinishedRuns :
          ~r.raised =>
              /\ Len(NewDocuments(r)) = Cardinality(KeptEntries(r))
              /\ \A j \in KeptEntries(r) :
                    NewDocuments(r)[Cardinality({i \in KeptEntries(r) : i <= j})].metadata.path
                      = r.discovered[j]
              /\ \A field \in {"endpoints", "examples", "rules"} :
                    NewRecords(r.before[field], r.result[field])
                      = RecordsInOrder(NewDocuments(r), field)
    /\ \A c \in Callers :
          pc[c] = "loop" =>
              /\ Len(call[c].entries) = next[c] - 1
              /\ \A j \in 1..Len(call[c].entries) : call[c].entries[j].path = files[c][j]
              /\ Len(knowledge[c].documents) - Len(call[c].before.documents)
                   = Cardinality({j \in 1..Len(call[c].entries) :
                                     call[c].entries[j].outcome # "statThrew"})

\* C11 witness: a call returned three documents, the file between them
\* skipped, with endpoints of two documents
C11_Witness ==
    \E r \in FinishedRuns :
        /\ Len(r.discovered) = 4
        /\ r.entries[2].outcome = "statThrew"
        /\ Len(NewDocuments(r)) = 3
        /\ \E a, b \in 1..Len(r.result.endpoints) :
              r.result.endpoints[a].source # r.result.endpoints[b].source

\* C12: within one run the filename is a unique key: no two documents a
\* call returns have the same filename, whatever the tree under the root.
C12_FilenameIsKey ==
    \A r \in FinishedRuns :
        \A a, b \in 1..Len(NewDocuments(r)) :
            NewDocuments(r)[a].filename = NewDocuments(r)[b].filename => a = b

(***************************************************************************)
(* The helper methods on their own (UnitSpec).                             *)
(***************************************************************************)
\* the keys in the order the specification lists them
KeyOrder ==
    <<"cf1", "cf2", "cf3", "cf4", "cf5", "cf6", "cf7", "validation", "specification",
      "development", "geojson", "python", "request", "response">>

\* the label the source returns for a key
LabelOf(key) == (CHOOSE k \in {CategoryKeys[i] : i \in 1..Len(CategoryKeys)} : k[1] = key)[2]

\* the keys, as indices of KeyOrder, that are substrings of the lowercased name
KeysIn(name) == {k \in 1..Len(KeyOrder) : includes(toLowerCase(name), KeyOrder[k])}

\* the label of the earliest key of KeyOrder in the name, "General" when none
EarliestLabel(name) ==
    IF KeysIn(name) = {} THEN "General" ELSE LabelOf(KeyOrder[Min(KeysIn(name))])

\* C13 as stated: categorizeDocument returns the label of the earliest key,
\* in the order cf1 .. cf7, validation, specification, development, geojson,
\* python, request, response, that is a substring of the lowercased
\* filename, and "General" when none is; and every filename containing both
\* "cf2" and "validation" (any case) resolves to "Submit DDS".
C13_EarliestKeyAndCf2BeatsValidation ==
    unit.op = "categorizeDocument" =>
        /\ unit.output[1] = EarliestLabel(unit.input[1].filename)
        /\ {2, 8} \subseteq KeysIn(unit.input[1].filename) => unit.output[1] = "Submit DDS"

\* C13, amended: categorizeDocument returns the label of the earliest key
\* of that order that is a substring of the lowercased filename, and
\* "General" when none is; a filename containing both "cf2" and
\* "validation" (any case) and not "cf1" resolves to "Submit DDS".
C13_EarliestKeyWins ==
    unit.op = "categorizeDocument" =>
        /\ unit.output[1] = EarliestLabel(unit.input[1].filename)
        /\ {2, 8} \subseteq KeysIn(unit.input[1].filename) /\ 1 \notin KeysIn(unit.input[1].filename)
             => unit.output[1] = "Submit DDS"

\* C13 witness: a name with "CF2" before "Validation" was categorised
C13_Witness ==
    /\ unit.op = "categorizeDocument"
    /\ unit.input[1].filename = "CF2_Validation.docx"
    /\ unit.output = <<"Submit DDS">>

\* the matches of the three passes over content whose token has a '/',
\* as indices into the captures
SlashMatches(content) ==
    {k \in 1..Len(endpointPatterns(content)) : includes(endpointPatterns(content)[k], "/")}

\* C14: endpoint extraction does not deduplicate: the number of records a
\* document adds is the number of matches of the three passes whose token
\* contains '/', the k-th record having the token of the k-th such match as
\* url; a token without '/' adds nothing, and a URL matched twice adds two
\* records.
C14_OneEndpointPerMatch ==
    unit.op = "extractEndpoints" =>
        /\ Len(unit.output) = Cardinality(SlashMatches(unit.input[1].content))
        /\ \A k \in SlashMatches(unit.input[1].content) :
              unit.output[Cardinality({j \in SlashMatches(unit.input[1].content) : j <= k})].url
                = endpointPatterns(unit.input[1].content)[k]
        /\ unit.input[1].content = "url: plain" => unit.output = <<>>
        /\ unit.input[1].content = "GET /dds/plots\nURL:: /dds/plots" =>
              /\ Len(unit.output) = 2
              /\ unit.output[1].url = "/dds/plots"
              /\ unit.output[2].url = "/dds/plots"

\* C14 witness: one URL matched by the verb pass and by the url pass gave
\* two records
C14_Witness ==
    /\ unit.op = "extractEndpoints"
    /\ unit.input[1].content = "GET /dds/plots\nURL:: /dds/plots"
    /\ Len(unit.output) = 2
    /\ unit.output[1].url = unit.output[2].url

\* the places <<position, verb>> of content where the verb, in any case, is
\* followed by whitespace only and then by token, in any case
VerbPlaces(content, token) ==
    Only({ {p \in (1..Len(content)) \X {"GET", "POST", "PUT", "DELETE"} :
              /\ StartsAt(lc, p[1], toLowerCase(p[2]))
              /\ \E w \in 1..Len(content) :
                    /\ \A j \in (p[1] + Len(p[2]))..(p[1] + Len(p[2]) + w - 1) :
                          j <= Len(content) /\ Char(content, j) \in Ws
                    /\ StartsAt(lc, p[1] + Len(p[2]) + w, lt)} :
           lc \in {toLowerCase(content)}, lt \in {toLowerCase(token)} })

\* the verb of the leftmost place, POST when there is no place
VerbBeforeToken(content, token) ==
    Only({ IF places = {} THEN "POST"
           ELSE (CHOOSE p \in places : \A q \in places : p[1] <= q[1])[2] :
           places \in {VerbPlaces(content, token)} })

\* C15: the method of every Endpoint record is one of GET, POST, PUT,
\* DELETE: the verb, upper-cased, that somewhere in the document's text
\* comes before the record's token with whitespace only between them, text
\* and token compared literally and without regard to case (the leftmost
\* such place when there are several), and POST when there is no such place.
C15_MethodIsVerbBeforeToken ==
    unit.op = "extractEndpoints" =>
        /\ \A k \in 1..Len(unit.output) :
              /\ unit.output[k].method \in {"GET", "POST", "PUT", "DELETE"}
              /\ unit.output[k].method
                   = VerbBeforeToken(unit.input[1].content, unit.output[k].url)
        /\ unit.input[1].content = "endpoint: /a.b\nPUT /axb" =>
              /\ Len(unit.output) = 2
              /\ unit.output[1].method = "PUT" /\ unit.output[1].url = "/axb"
              /\ unit.output[2].method = "POST" /\ unit.output[2].url = "/a.b"
        /\ unit.input[1].content = "endpoint: /dds\ndelete  /dds" =>
              /\ Len(unit.output) = 1
              /\ unit.output[1].method = "DELETE"

\* C15 witness: a token of the endpoint pass took its method from a
\* lower-case verb elsewhere in the text
C15_Witness ==
    /\ unit.op = "extractEndpoints"
    /\ unit.input[1].content = "endpoint: /dds\ndelete  /dds"
    /\ Len(unit.output) = 1
    /\ unit.output[1].method = "DELETE"

\* C16: an XML document whose lowercased filename contains "request" or
\* "response" gives exactly one Example, any other document none; the type
\* is "request" when the filename contains "request", also next to
\* "response", and "response" otherwise; name is the document's title,
\* content its content and source its filename.
C16_OneExamplePerQualifyingDocument ==
    unit.op = "extractExamples" =>
        IF /\ unit.input[1].type = "xml"
           /\ \/ includes(toLowerCase(unit.input[1].filename), "request")
              \/ includes(toLowerCase(unit.input[1].filename), "response")
        THEN /\ Len(unit.output) = 1
             /\ unit.output[1].type
                  = (IF includes(toLowerCase(unit.input[1].filename), "request")
                     THEN "request" ELSE "response")
             /\ unit.output[1].name = unit.input[1].title
             /\ unit.output[1].content = unit.input[1].content
             /\ unit.output[1].source = unit.input[1].filename
        ELSE unit.output = <<>>

\* C16 witness: an XML file with "Response" before "Request" in its name
\* gave a request example
C16_Witness ==
    /\ unit.op = "extractExamples"
    /\ unit.input[1].filename = "CF2_Response-Request.xml"
    /\ Len(unit.output) = 1
    /\ unit.output[1].type = "request"

\* C17: a document of a category other than "Validation Rules" adds no
\* Rule; a "Validation Rules" document adds one Rule for every match of each
\* of the four cue patterns (rule, validation, must, should), pattern after
\* pattern; every Rule has the trimmed captured text as name and as
\* description and the category "Validation".
C17_RulesOnlyFromValidationDocuments ==
    unit.op = "extractRules" =>
        /\ unit.input[1].category # "Validation Rules" => unit.output = <<>>
        /\ unit.input[1].category = "Validation Rules" =>
              Only({ /\ Len(unit.output) = Len(caps)
                     /\ \A k \in 1..Len(caps) : unit.output[k].name = trim(caps[k]) :
                     caps \in { CueCaptures(unit.input[1].content, 1, "rule", {"\n"})
                                  \o CueCaptures(unit.input[1].content, 1, "validation", {"\n"})
                                  \o CueCaptures(unit.input[1].content, 1, "must", {"\n"})
                                  \o CueCaptures(unit.input[1].content, 1, "should", {"\n"}) } })
        /\ \A k \in 1..Len(unit.output) :
              /\ unit.output[k].name = unit.output[k].description
              /\ unit.output[k].category = "Validation"
        /\ unit.input[1].filename = "Validation.docx"
             /\ unit.input[1].content = "a plot MUST:  be closed  \nshould validation: x" =>
              /\ Len(unit.output) = 3
              /\ unit.output[1].name = "x"
              /\ unit.output[2].name = "be closed"
              /\ unit.output[3].name = "validation: x"

\* C17 witness: a "Validation Rules" document with three matches gave three
\* rules
C17_Witness ==
    /\ unit.op = "extractRules"
    /\ unit.input[1].category = "Validation Rules"
    /\ unit.input[1].content = "a plot MUST:  be closed  \nshould validation: x"
    /\ Len(unit.output) = 3

(***************************************************************************)
(* The servers on a cache file that is not JSON (ServerSpec).              *)
(***************************************************************************)
\* C18: a cache file that holds malformed JSON does not stop the service:
\* the initializeKnowledgeBase that finds it does not raise and leaves the
\* empty knowledge base (one of the two outcomes allowed), its caller goes
\* on, and requests that come later are answered from that knowledge base.
C18_MalformedCacheDoesNotStopService ==
    [][ \A c \in Callers :
          /\ cache.kind = "malformed" /\ init[c].outcome = "none" /\ init'[c].outcome # "none"
               => /\ init'[c].outcome = "fallback"
                  /\ pc'[c] = "initialized"
                  /\ knowledgeBase' = <<EmptyKnowledge>>
                  /\ cache' = cache
          /\ init[c].found /\ init[c].outcome = "fallback" /\ restarts' = restarts
               => /\ knowledgeBase' # <<>>
                  /\ pc'[c] \in {"initialized", "listening"}
                  /\ \A b \in Handlers : pc[b] = "idle" /\ pc'[b] # "idle" => pc'[b] = "done" ]_vars

\* C18 witness: the process was started on a malformed cache, initialised
\* to the empty knowledge base, and a later request was answered
C18_Witness ==
    /\ process.bootCache = Malformed
    /\ \E c \in Callers : init[c].found /\ init[c].outcome = "fallback"
    /\ knowledgeBase = <<EmptyKnowledge>>
    /\ \E b \in Handlers : pc[b] = "done"

(***************************************************************************)
(* Exceptions at the per-file boundary of processAllDocuments (Spec).      *)
(***************************************************************************)
\* C19: no partial document: of every discovered file of a returned call,
\* either the Document is in documents with all the records of structured
\* extraction, or, when an exception reached the catch of the loop body (in
\* processDocument or in structured extraction), neither the Document nor
\* a record with the file as source was added.
C19_NoPartialDocument ==
    \A r \in FinishedRuns :
        ~r.raised =>
            \A j \in 1..Len(r.entries) :
                IF r.entries[j].outcome \in {"statThrew", "extractionThrew"}
                THEN /\ DocumentsAt(r, r.entries[j].path) = {}
                     /\ (\A i \in 1..Len(r.entries) :
                            basename(r.entries[i].path) = basename(r.entries[j].path) => i = j)
                          => \A field \in {"endpoints", "examples", "rules"} :
                                FromSource(NewRecords(r.before[field], r.result[field]),
                                           basename(r.entries[j].path)) = {}
                ELSE Cardinality(DocumentsAt(r, r.entries[j].path)) = 1

(***************************************************************************)
(* Resources listed and read (UnitSpec).                                   *)
(***************************************************************************)
\* C20: every resource URI that ListResources returns can be passed to
\* ReadResource, which returns the content of the listed document, endpoint
\* or example and raises neither "not found" nor "Unknown resource type".
C20_ListedResourcesAreReadable ==
    unit.op = "ReadResource" =>
        /\ ~unit.output[1].threw
        /\ StartsAt(unit.input[2], 1, "eudr://document/")
             => unit.output[1].text = unit.input[1].content

(***************************************************************************)
(* Descriptions, titles and operations (UnitSpec).                         *)
(***************************************************************************)
\* the description the specification gives token in content: the first line,
\* from 3 before to 3 after the first line holding the token, that does not
\* hold the token and is longer than 20 characters, else "<token> endpoint"
DescriptionWithin3(content, token) ==
    Only({ Only({ IF good = {} THEN token \o " endpoint" ELSE trim(lines[Min(good)]) :
                  good \in {{i \in 1..Len(lines) :
                               /\ \E l \in {Min({j \in 1..Len(lines) : includes(lines[j], token)})} :
                                     i >= l - 3 /\ i <= l + 3
                               /\ ~includes(lines[i], token)
                               /\ Len(trim(lines[i])) > 20}} }) :
           lines \in {splitLines(content)} })

\* C23: an Endpoint's description is the first line, of those from 3 before
\* to 3 after the first line containing the token, that does not contain
\* the token and is longer than 20 characters, and "<token> endpoint" only
\* when no line of that window qualifies: a qualifying line exactly 3 lines
\* after the token's line is used.
C23_DescriptionFromLinesWithin3 ==
    unit.op = "extractEndpoints" =>
        \A k \in 1..Len(unit.output) :
            unit.output[k].description
              = DescriptionWithin3(unit.input[1].content, unit.output[k].url)

\* the lines of content that begin with prefix, as indices
LinesWith(content, prefix) ==
    {i \in 1..Len(splitLines(content)) : StartsAt(splitLines(content)[i], 1, prefix)}

\* C24: extractTitle returns the trimmed capture of the first of the three
\* patterns, in the order '# Title' line, 'Title:' line, line underlined by
\* three or more '=', that matches the content, whatever the places of the
\* matches in the text, and the filename without its extension when none
\* matches: "# Hello World\nBody text" gives "Hello World", and unmarked
\* content with filename "spec.docx" gives "spec".
C24_TitleByPatternOrder ==
    unit.op = "extractTitle" =>
        /\ unit.input[1].content = "# Hello World\nBody text" => unit.output[1] = "Hello World"
        /\ unit.input[1].content = "Title: Second\n# First" => unit.output[1] = "First"
        /\ unit.input[1].content = "Name\n===\nTitle: T" => unit.output[1] = "T"
        /\ unit.input[1].content = "Name\n====" => unit.output[1] = "Name"
        /\ unit.input[1].content = "#  \n  Spaced  " => unit.output[1] = "Spaced"
        /\ unit.input[1].content \in {"Name\n==", "Body text"}
             => unit.output[1] = stripExtension(unit.input[1].filename)
        /\ unit.input[1].content = "Body text" /\ unit.input[1].filename = "spec.docx"
             => unit.output[1] = "spec"
        /\ LinesWith(unit.input[1].content, "#") = {}
             /\ LinesWith(unit.input[1].content, "Title:") = {}
             /\ LinesWith(unit.input[1].content, "===") = {}
             => unit.output[1] = stripExtension(unit.input[1].filename)

\* C24 witness: a 'Title:' line came before a '#' line in the text and the
\* '#' line gave the title
C24_Witness ==
    /\ unit.op = "extractTitle"
    /\ unit.input[1].content = "Title: Second\n# First"
    /\ unit.output = <<"First">>

\* the keywords of the operations in the order the specification lists them
OperationOrder ==
    << <<"echo", "EchoService">>, <<"submit", "SubmitDDS">>, <<"retrieve", "RetrieveDDS">>,
       <<"amend", "AmendDDS">>, <<"retract", "RetractDDS">>, <<"statement", "GetStatement">> >>

\* C25: an Example's operation is that of the first keyword, in the order
\* echo, submit, retrieve, amend, retract, statement, that is a substring of
\* the lowercased filename (EchoService, SubmitDDS, RetrieveDDS, AmendDDS,
\* RetractDDS, GetStatement), and "Unknown" when there is none;
\* "SubmitDDS_Request_Example.xml" gives type "request" and operation
\* "SubmitDDS".
C25_OperationByKeywordOrder ==
    unit.op = "extractExamples" =>
        /\ \A k \in 1..Len(unit.output) :
              \E hit \in {{i \in 1..Len(OperationOrder) :
                             includes(toLowerCase(unit.input[1].filename), OperationOrder[i][1])}} :
                  unit.output[k].operation
                    = (IF hit = {} THEN "Unknown" ELSE OperationOrder[Min(hit)][2])
        /\ unit.input[1].filename = "SubmitDDS_Request_Example.xml" =>
              /\ Len(unit.output) = 1
              /\ unit.output[1].type = "request"
              /\ unit.output[1].operation = "SubmitDDS"

\* C25 witness: the example of SubmitDDS_Request_Example.xml was extracted
C25_Witness ==
    /\ unit.op = "extractExamples"
    /\ unit.input[1].filename = "SubmitDDS_Request_Example.xml"
    /\ Len(unit.output) = 1
    /\ unit.output[1].operation = "SubmitDDS"

(***************************************************************************)
(* Properties of one DocumentProcessor instance (InstanceSpec).            *)
(***************************************************************************)
IsPrefix(s, t) == Len(s) <= Len(t) /\ SubSeq(t, 1, Len(s)) = s

Collections == {"documents", "endpoints", "examples", "rules"}

Extends(k, l) == \A f \in Collections : IsPrefix(k[f], l[f])

\* C26: the knowledge of a DocumentProcessor is append-only.  No step of
\* processAllDocuments, saveKnowledge or getKnowledge removes, reorders or
\* changes a record the instance already holds; a call of processAllDocuments
\* returns the knowledge it found followed by the records of that run; and
\* what it returns, and what getKnowledge returns, is this.knowledge.
C26_KnowledgeIsAppendOnly ==
    [][ /\ Extends(knowledge[Client], knowledge'[Client])
        /\ Len(runs') > Len(runs) =>
               LET r == runs'[Len(runs')]
               IN  /\ r.result = knowledge'[Client]
                   /\ Extends(r.before, r.result)
        /\ unit' # unit => unit'.output = <<knowledge'[Client]>> ]_vars

\* a second call on the same instance has returned with the records of the
\* first run followed by its own, and the knowledge was saved and read
C26_Witness ==
    /\ cache.kind = "json"
    /\ unit.op = "getKnowledge"
    /\ \E i \in 1..Len(runs) :
           /\ ~runs[i].fresh
           /\ ~runs[i].raised
           /\ Len(runs[i].before.documents) > 0
           /\ Len(runs[i].result.documents) > Len(runs[i].before.documents)
           /\ Len(runs[i].result.endpoints) > Len(runs[i].before.endpoints)

\* the documents of knowledge k filed under filename
DocumentsNamed(k, filename) ==
    {k.documents[j] : j \in {i \in 1..Len(k.documents) : k.documents[i].filename = filename}}

\* C29: referential integrity of the knowledge, in every state the pipeline
\* reaches (between two loop iterations included).  The source of every
\* Endpoint, Example and Rule is the filename of a Document of documents; an
\* Endpoint has the category of that document and a url with a '/'; the
\* document of an Example has type xml; the document of a Rule has category
\* "Validation Rules"; and the type of a Document is the lowercased extension
\* of its filename (docx, xml or pdf).
C29_ReferentialIntegrity ==
    LET k == knowledge[Client]
    IN  /\ \A i \in 1..Len(k.endpoints) :
               /\ DocumentsNamed(k, k.endpoints[i].source) # {}
               /\ \A d \in DocumentsNamed(k, k.endpoints[i].source) :
                      k.endpoints[i].category = d.category
               /\ includes(k.endpoints[i].url, "/")
        /\ \A i \in 1..Len(k.examples) :
               /\ DocumentsNamed(k, k.examples[i].source) # {}
               /\ \A d \in DocumentsNamed(k, k.examples[i].source) : d.type = "xml"
        /\ \A i \in 1..Len(k.rules) :
               /\ DocumentsNamed(k, k.rules[i].source) # {}
               /\ \A d \in DocumentsNamed(k, k.rules[i].source) :
                      d.category = "Validation Rules"
        /\ \A i \in 1..Len(k.documents) :
               /\ k.documents[i].type \in {"docx", "xml", "pdf"}
               /\ "." \o k.documents[i].type
                    = toLowerCase(extname(k.documents[i].filename))

\* a call is between two loop iterations with an Endpoint, an Example and a
\* Rule in the knowledge, the Example from a file whose extension is .XML
C29_Witness ==
    /\ pc[Client] = "loop"
    /\ next[Client] <= Len(files[Client])
    /\ Len(knowledge[Client].endpoints) > 0
    /\ Len(knowledge[Client].rules) > 0
    /\ \E i \in 1..Len(knowledge[Client].examples) :
           knowledge[Client].examples[i].source = "Request.XML"

\* the initialisations that have returned
Returned == {c \in Callers : init[c].outcome \in {"loaded", "processed", "fallback"}}

\* C27: once initializeKnowledgeBase has returned (cache loaded, pipeline
\* run or fallback), whatever valid JSON the cache file held, knowledgeBase
\* is an object, not null, that has the four collections documents,
\* endpoints, examples and rules.
C27_KnowledgeBaseHasCollections ==
    Returned # {} =>
        /\ knowledgeBase # <<>>
        /\ {"documents", "endpoints", "examples", "rules"} \subseteq DOMAIN knowledgeBase[1]

\* the step ends an initializeKnowledgeBase of c in which a step failed
FailsIn(c) == init[c].outcome # "fallback" /\ init'[c].outcome = "fallback"

\* C28: when a step of initializeKnowledgeBase fails (the cache cannot be
\* read or parsed, the pipeline run raises, or the write of the cache raises
\* after the pipeline ran), the call ends with knowledgeBase the empty
\* knowledge base, whatever the pipeline had computed; and the REST server,
\* which listens only after that call, serves the empty knowledge base from
\* then on.
C28_FailedInitialisationServesEmpty ==
    /\ [][\A c \in Callers : FailsIn(c) => knowledgeBase' = <<EmptyKnowledge>>]_vars
    /\ [](frontEnd = "web" /\ init[Main].outcome = "fallback"
              => knowledgeBase = <<EmptyKnowledge>>)

\* the REST server has answered a request after an initialisation whose
\* pipeline run found a document and whose write of the cache failed
C28_Witness ==
    /\ frontEnd = "web"
    /\ init[Main].outcome = "fallback"
    /\ ~init[Main].found
    /\ knowledge[Main].documents # <<>>
    /\ knowledgeBase = <<EmptyKnowledge>>
    /\ \E c \in Handlers : pc[c] = "done"

(***************************************************************************)
(* Properties of the SSE server (SseSpec).                                 *)
(***************************************************************************)
\* the POST answered last was handed to the transport its sessionId names,
\* one the table held then and whose connect had not failed, or to none
HandedToItsSession ==
    post # <<>> =>
        /\ post[1].to # 0 =>
              /\ post[1].to \in 1..Len(connects)
              /\ connects[post[1].to].sessionId = sessionIdOf(post[1].query)
              /\ sessionIdOf(post[1].query) \in post[1].registered
              /\ post[1].stateThen # "failed"
        /\ sessionIdOf(post[1].query) \notin post[1].registered => post[1].to = 0

\* the id of the request, or null
IdOrNull(body) == IF body.kind = "json" /\ body.value.id # <<>> THEN body.value.id[1] ELSE Null

\* an entry leaves the table only in the step in which its connect fails
RemovedOnlyOnFailure ==
    \A id \in DOMAIN transports \ DOMAIN transports' :
        /\ connects[transports[id]].state = "connecting"
        /\ connects'[transports[id]].state = "failed"

\* C30 as stated: a POST to /messages is handed to a transport only if its
\* sessionId is the id of a transport an earlier GET /mcp registered and
\* whose connect did not fail, and to that transport; a POST whose sessionId
\* is missing or unknown is answered 404 with the JSON-RPC error -32001 and
\* the id of the request (or null) and no transport receives it; a session
\* leaves the table only when its connect fails.
C30_SessionRouting ==
    /\ [](HandedToItsSession)
    /\ [](post # <<>> /\ sessionIdOf(post[1].query) \notin post[1].registered
            => /\ post[1].to = 0
               /\ post[1].status = 404
               /\ post[1].code = -32001
               /\ post[1].id = IdOrNull(post[1].body))
    /\ [][RemovedOnlyOnFailure]_vars

\* C30 amended: the same for the POSTs whose body express.json() accepted;
\* a POST whose body is JSON that does not parse is answered 400 by the body
\* parser, whatever its sessionId, and no transport receives it.
C30_SessionRoutingOfParsedPosts ==
    /\ [](HandedToItsSession)
    /\ [](post # <<>> /\ sessionIdOf(post[1].query) \notin post[1].registered
            => /\ post[1].to = 0
               /\ IF post[1].body.kind = "malformed"
                  THEN post[1].status = 400
                  ELSE /\ post[1].status = 404
                       /\ post[1].code = -32001
                       /\ post[1].id = IdOrNull(post[1].body))
    /\ [](post # <<>> /\ post[1].body.kind = "malformed" => post[1].to = 0)
    /\ [][RemovedOnlyOnFailure]_vars

\* a POST was handed to the second transport while the first, whose connect
\* failed, is out of the table, and carried the id 7
C30_Witness ==
    /\ Len(connects) = 2
    /\ connects[1].state = "failed"
    /\ DOMAIN transports = {connects[2].sessionId}
    /\ post # <<>>
    /\ post[1].to = 2
    /\ post[1].body.kind = "json"
    /\ post[1].status = 202

(***************************************************************************)
(* Properties of the front ends' tools and routes (FrontSpec).             *)
(***************************************************************************)
\* the text of a content, parsed when it is JSON
Decoded(text) == IF "json" \in DOMAIN text THEN text.json ELSE text.plain

\* what the REST server answers and the stdio server returns for the call
\* of the state
RestAnswer ==
    IF unit.op = "handleRequest" THEN unit.output[1]
    ELSE handleRequest(unit.input[1], unit.input[2])[1]

StdioContent ==
    IF unit.op = "CallTool" THEN unit.output[1]
    ELSE CallTool(unit.input[1], ToolNameOf(unit.input[2]), ToolArgumentsOf(unit.input[2]))

\* C21: the REST server exposes the tools of the stdio server.  For each of
\* the five tools, every knowledge base and every object of arguments, the
\* result field of the REST answer equals the text the stdio server returns
\* (parsed when it is JSON), the "No ... found" and "No ... provided"
\* messages included; where one of them raises, so does the other.
C21_RestResultIsStdioText ==
    unit.op \in {"handleRequest", "CallTool"}
      /\ IsToolsCall(unit.input[2]) /\ ToolNameOf(unit.input[2]) \in FiveTools =>
        \E rest \in {RestAnswer}, stdio \in {StdioContent} :
            IF stdio.threw
            THEN rest.status = 500
            ELSE /\ rest.status = 200
                 /\ DOMAIN rest.body[1].json = {"result"}
                 /\ rest.body[1].json.result = Decoded(stdio.text)

\* the REST server answered a search with two documents or more, the stdio
\* server would return the same as JSON text
C21_Witness ==
    /\ unit.op = "handleRequest"
    /\ unit.input[2].url = "/tools/search_documentation"
    /\ unit.input[2].method = "POST"
    /\ IsToolsCall(unit.input[2])
    /\ unit.output[1].status = 200
    /\ "json" \in DOMAIN StdioContent.text
    /\ Len(StdioContent.text.json) >= 2
    /\ unit.output[1].body[1].json.result = StdioContent.text.json

\* the request's body parses to an object, or is empty
BodyParses(req) == req.body.kind # "malformed" /\ req.body # [kind |-> "json", value |-> Null]

\* the knowledge base is an object with the four collections
WellFormed(kb) ==
    kb # <<>> /\ {"documents", "endpoints", "examples", "rules"} \subseteq DOMAIN kb[1]

\* the pathname of a request target the server can parse
Pathname(req) == pathnameOf(req.url)

\* C22: REST routing.  Every request gets exactly one response.  OPTIONS is
\* answered 200.  Otherwise: a request to /tools/<name> whose method is not
\* POST is answered 405; a POST to /tools/<name> with an unknown name 404; a
\* POST to one of the five tools 200 with a result field; a request to any
\* path other than /health, /info and /resources 404; and 500 takes the
\* place of an answer when handling raised an exception (the body does not
\* parse to an object, or the knowledge base lacks what the route reads),
\* which well-formed requests on a well-formed knowledge base never get.
C22_RestRouting ==
    unit.op = "handleRequest" =>
        \E kb \in {unit.input[1]}, req \in {unit.input[2]} :
            /\ Len(unit.output) = 1
            /\ \E status \in {unit.output[1].status} :
                 /\ req.method = "OPTIONS" => status = 200
                 /\ req.method # "OPTIONS" =>
                      /\ Pathname(req) \in ToolPaths /\ req.method # "POST" => status = 405
                      /\ Pathname(req) \in ToolPaths /\ req.method = "POST"
                           /\ ToolNameOf(req) \notin FiveTools =>
                             status = IF BodyParses(req) THEN 404 ELSE 500
                      /\ Pathname(req) \in ToolPaths /\ req.method = "POST"
                           /\ ToolNameOf(req) \in FiveTools =>
                             \/ /\ status = 200
                                /\ "result" \in DOMAIN unit.output[1].body[1].json
                             \/ status = 500
                      /\ Pathname(req) \notin ToolPaths \cup {"/health", "/info", "/resources"} =>
                             status = 404
                      /\ Pathname(req) \in {"/health", "/info", "/resources"} =>
                             status \in {200, 500}
                      /\ status = 500 => ~BodyParses(req) \/ ~WellFormed(kb)
                      /\ BodyParses(req) /\ WellFormed(kb) /\ Pathname(req) \in ToolPaths
                           /\ req.method = "POST" /\ ToolNameOf(req) \in FiveTools =>
                             status = 200

=============================================================================
